---- MODULE Spec2Model ----
(***************************************************************************)
(* One call session of the Chasdei Lev voice gateway.  The repository      *)
(* holds several revisions of the gateway; `rev' selects the revision a    *)
(* behaviour runs:                                                         *)
(*   "bridge"  src/server.js 739-1117      raw websocket bridge            *)
(*   "agents"  src/unnamed/part_002 1-457  SDK session, updateAgent and    *)
(*                                         delayed replay timers           *)
(*   "manual"  src/unnamed/part_001        SDK session, hand-off by        *)
(*                                         session.client.updateSession    *)
(*   "master"  src/server.js 261-485       SDK session, hand-off by        *)
(*                                         dispatchSessionUpdate           *)
(*   "single"  src/unnamed/part_002 459-884 SDK session, one agent         *)
(***************************************************************************)
EXTENDS Integers, Sequences, FiniteSets, TLC

VARIABLES
  rev,                  \* the revision of the gateway that runs
  conn,                 \* "idle" | "accepted" | "rejected" | "crashed"
  reqPath,              \* pathname of the connection request ("" before it is handled)
  source,               \* ?source= query parameter of the request (agents)
  twilioWs,             \* telephony socket: "open" | "closing" | "closed"
  openaiWs,             \* upstream socket / session: "none" | "connecting" | "open" | "closing" | "closed"
  startSeen,            \* the telephony 'start' frame has been delivered
  isAssistantSpeaking,  \* the Audio Gate flag
  currentAgent,         \* the active persona
  upTools,              \* tool names most recently installed upstream
  upInstr,              \* instruction text most recently installed upstream
  upSent,               \* what the last handler run wrote to the upstream connection, in order
  twSent,               \* audio payloads the last handler run wrote to the telephony socket
  greeted,              \* greeting triggers written upstream so far
  pending,              \* backing lookups in flight (awaited axios.post)
  timers,               \* setTimeout callbacks not yet run, in the order they were set
  toolResult,           \* what the last executed tool returned
  apiUrl,               \* query of the last request a tool made to the schedule service
  PROMPT_REFRESH_SECRET, \* the configured refresh secret ("" = not set)
  reloads,              \* reloadPromptsFromDB calls that await the store's answer
  unhandled,            \* an exception escaped a handler (unhandled rejection / uncaught error)
  PROMPTS,              \* the prompt cache: persona -> instruction text
  evt                   \* the event handled by the last step

vars == <<rev, conn, reqPath, source, twilioWs, openaiWs, startSeen, isAssistantSpeaking,
          currentAgent, upTools, upInstr, upSent, twSent, greeted, pending, timers,
          toolResult, apiUrl, PROMPT_REFRESH_SECRET, reloads, unhandled, PROMPTS, evt>>

\* ---------------------------------------------------------------- bounds
MaxPending == 2
MaxTimers == 2

\* ------------------------------------------------------ inputs of the model
Revs == {"bridge", "agents", "manual", "master", "single"}
SdkRevs == Revs \ {"bridge"}
Paths == {"/twilio-stream", "/unexpected"}
Sources == {"direct", "ivr_rebbi"}
MediaPayloads == {"m1", "m2"}
AudioDeltas == {"", "d1"}
Questions == {"", "when is pickup in Lakewood"}

Evt(k, a, x) == [kind |-> k, arg |-> a, aux |-> x]
NoEvt == Evt("none", "", "")

\* ------------------------------------------------------- upstream messages
Msg(t, k, i, tl, x) == [type |-> t, keys |-> k, instr |-> i, tools |-> tl, text |-> x]
SessionUpdate(instr, tools) == Msg("session.update", {"instructions", "tools"}, instr, tools, "")
UserItem(text) == Msg("conversation.item.create", {}, "", {}, text)
ResponseCreate == Msg("response.create", {}, "", {}, "")
\* An append that does not carry the frame's payload.
AudioAppendBlank(payload) == Msg("input_audio_buffer.append", {}, "", {}, "")

AudioAppend(payload) == Msg("input_audio_buffer.append", {}, "", {}, payload)
FunctionCallOutput(data) == Msg("response.function_call_output", {}, "", {}, data)

\* ws.send(): throws while CONNECTING, writes while OPEN, is dropped otherwise.
WsSendThrows(state) == state = "connecting"
\* A socket that writes whatever its state.
WsSendAlways(state, msgs) == msgs

WsSend(state, msgs) == IF state = "open" THEN msgs ELSE <<>>

\* A close that starts a closing handshake whatever the socket's state.
WsCloseAgain(state) == "closing"

\* A close that leaves the socket as it is.
WsCloseIgnored(state) == state

\* ws.close(): starts the closing handshake of a socket that is not closed yet.
WsClose(state) == IF state \in {"connecting", "open"} THEN "closing" ELSE state

\* ---------------------------------------------------------------- prompts
Personas == {"router", "pickup", "items", "sheitel"}

\* The PROMPTS literal of each revision, before the store is read.
BuiltinPrompts(r) ==
  [p \in Personas |-> IF r = "bridge" THEN "" ELSE "builtin:" \o p]

\* PROMPTS after a startup load that found every row.
LoadedPrompts(r) == [p \in Personas |-> "db:" \o p]

\* What the startup read of the persona store meets: no answer or an error,
\* a row with content for every persona, or rows whose content is empty/null.
StoreOutcomes == {"unreachable", "rows", "empty_content"}

\* Revisions whose loader assigns a row's content only when it is non-empty
\* (`row.content && ...' of part_002 49-54; the checks of part_002 506-510).
KeepsBuiltinOnEmpty(r) == r \in {"agents", "single"}

\* PROMPTS after loadPromptsFromDB / reloadPromptsFromDB at startup.
LoadPrompts(r, outcome) ==
  CASE outcome = "unreachable" -> BuiltinPrompts(r)
    [] outcome = "rows" -> LoadedPrompts(r)
    [] OTHER -> [p \in Personas |->
                   IF KeepsBuiltinOnEmpty(r) THEN BuiltinPrompts(r)[p] ELSE ""]

\* const routerPrompt = PROMPTS.router || '...'  (bridge); PROMPTS.x elsewhere
Instructions(p) ==
  IF rev = "bridge" /\ PROMPTS[p] = "" THEN "fallback:" \o p ELSE PROMPTS[p]

\* The PROMPT_REFRESH_SECRET of a deployment that sets it.
ConfiguredSecret == "s3cret"

\* ------------------------------------------------------------------ Init
Init ==
  /\ rev \in Revs
  /\ conn = "idle"
  /\ reqPath = ""
  /\ source \in (IF rev = "agents" THEN Sources ELSE {"direct"})
  /\ twilioWs = "open"
  /\ openaiWs = "none"
  /\ startSeen = FALSE
  /\ isAssistantSpeaking = FALSE
  /\ currentAgent = "router"
  /\ upTools = {}
  /\ upInstr = ""
  /\ upSent = <<>>
  /\ twSent = <<>>
  /\ greeted = 0
  /\ pending = <<>>
  /\ timers = <<>>
  /\ toolResult = [spoken_text |-> [key |-> "", city |-> "", date |-> "", time_window |-> "",
                                    address |-> ""],
                   has_results |-> "absent", n_results |-> 0, threw |-> FALSE]
  /\ apiUrl = ""
  /\ PROMPT_REFRESH_SECRET = ConfiguredSecret
  /\ reloads = 0
  /\ unhandled = FALSE
  /\ PROMPTS \in {LoadPrompts(rev, o) : o \in StoreOutcomes}
  /\ evt = NoEvt

Live == conn = "accepted"
Bridge == rev = "bridge" /\ Live


\* What a handler run leaves behind: the event it handled and what it wrote.
Handled(kind, arg, aux, up, tw) ==
  /\ evt' = Evt(kind, arg, aux)
  /\ upSent' = up
  /\ twSent' = tw

\* ------------------------------------------------- accepting a connection
\* if (pathname !== '/twilio-stream') { ws.close(); return }
\* A server that takes a connection on any path.
PathAcceptedAny(path) == TRUE

PathAccepted(path) == path = "/twilio-stream"

Connection(path) ==
  /\ conn = "idle"
  /\ reqPath' = path
  /\ IF PathAccepted(path)
       THEN /\ conn' = "accepted"
            /\ openaiWs' = "connecting"
            /\ twilioWs' = twilioWs
       ELSE /\ conn' = "rejected"
            /\ openaiWs' = openaiWs
            /\ twilioWs' = WsClose(twilioWs)
  /\ Handled("connection", path, "", <<>>, <<>>)
  /\ UNCHANGED <<rev, source, startSeen, isAssistantSpeaking, currentAgent, upTools, upInstr,
                 greeted, pending, timers, toolResult, apiUrl,
                 PROMPT_REFRESH_SECRET, reloads, unhandled, PROMPTS>>

\* ------------------------------------------------ bridge: upstream 'open'
RouterTools == {"determine_route"}
ItemsTools == {"search_items"}
Greeting == "GREETING_TRIGGER"

\* An 'open' handler that greets before it configures the session.
OpenMessagesGreetingFirst ==
  << UserItem(Greeting),
     ResponseCreate,
     [SessionUpdate(Instructions("router"), RouterTools) EXCEPT
        !.keys = {"instructions", "modalities", "voice", "input_audio_format",
                  "output_audio_format", "turn_detection", "tools"}] >>

\* openaiWs.on('open'): session.update, then the greeting item, then response.create
OpenMessages ==
  << [SessionUpdate(Instructions("router"), RouterTools) EXCEPT
        !.keys = {"instructions", "modalities", "voice", "input_audio_format",
                  "output_audio_format", "turn_detection", "tools"}],
     UserItem(Greeting),
     ResponseCreate >>

OpenaiOpen ==
  /\ Bridge
  /\ openaiWs = "connecting"
  /\ openaiWs' = "open"
  /\ upTools' = RouterTools
  /\ upInstr' = Instructions("router")
  /\ greeted' = greeted + 1
  /\ Handled("open", "", "", OpenMessages, <<>>)
  /\ UNCHANGED <<rev, conn, reqPath, source, twilioWs, startSeen, isAssistantSpeaking,
                 currentAgent, pending, timers, toolResult, apiUrl,
                 PROMPT_REFRESH_SECRET, reloads, unhandled, PROMPTS>>

\* ------------------------------------------ bridge: telephony -> upstream
\* frames reach the handler while the socket is open or finishing its close
TwilioDelivers == twilioWs \in {"open", "closing"}

\* msg.event === 'start' (logged by the bridge; consumed by the SDK transport)
TwilioStart ==
  /\ Live
  /\ TwilioDelivers
  /\ ~startSeen
  /\ startSeen' = TRUE
  /\ Handled("start", "", "", <<>>, <<>>)
  /\ UNCHANGED <<rev, conn, reqPath, source, twilioWs, openaiWs, isAssistantSpeaking, currentAgent,
                 upTools, upInstr, greeted, pending, timers, toolResult, apiUrl,
                 PROMPT_REFRESH_SECRET, reloads, unhandled, PROMPTS>>

\* A gate that ignores the speaking flag.
ForwardsMediaAlways(speaking) == TRUE

\* if (msg.event === 'media' && !isAssistantSpeaking)
ForwardsMedia(speaking) == ~speaking

\* A media branch whose send is outside the handler's try block.
SendThrowEscapes == FALSE

\* Whether a throw of openaiWs.send(...) in the media branch is caught: the
\* branch is inside the handler's try { ... } catch { }.
SendThrowCaught == TRUE

\* The send of a frame that passes the gate; a throw (socket still CONNECTING)
\* is swallowed by the handler's try/catch.
TwilioMedia(payload) ==
  /\ Bridge
  /\ TwilioDelivers
  /\ unhandled' = (unhandled \/ (/\ ForwardsMedia(isAssistantSpeaking)
                                 /\ WsSendThrows(openaiWs)
                                 /\ ~SendThrowCaught))
  /\ Handled("media", payload, "",
             IF ForwardsMedia(isAssistantSpeaking)
               THEN WsSend(openaiWs, <<AudioAppend(payload)>>) ELSE <<>>,
             <<>>)
  /\ UNCHANGED <<rev, conn, reqPath, source, twilioWs, openaiWs, startSeen, isAssistantSpeaking,
                 currentAgent, upTools, upInstr, greeted, pending, timers, toolResult, apiUrl,
                 PROMPT_REFRESH_SECRET, reloads, PROMPTS>>

\* Frames JSON.parse rejects.
InvalidFrames == {"not json"}

\* A message handler without the try/catch around JSON.parse.
TwilioParseErrorEscapes == FALSE

\* try { const msg = JSON.parse(raw.toString()) ... } catch { /* ignore non-JSON */ }
TwilioParseErrorCaught == TRUE

\* A telephony frame that is not JSON: JSON.parse throws inside the try block.
TwilioInvalid(raw) ==
  /\ Bridge
  /\ TwilioDelivers
  /\ unhandled' = (unhandled \/ ~TwilioParseErrorCaught)
  /\ Handled("twilio.invalid", raw, "", <<>>, <<>>)
  /\ UNCHANGED <<rev, conn, reqPath, source, twilioWs, openaiWs, startSeen, isAssistantSpeaking,
                 currentAgent, upTools, upInstr, greeted, pending, timers, toolResult, apiUrl,
                 PROMPT_REFRESH_SECRET, reloads, PROMPTS>>

\* if (msg.event === 'stop') openaiWs.close()
TwilioStop ==
  /\ Bridge
  /\ TwilioDelivers
  /\ openaiWs' = WsClose(openaiWs)
  /\ Handled("stop", "", "", <<>>, <<>>)
  /\ UNCHANGED <<rev, conn, reqPath, source, twilioWs, startSeen, isAssistantSpeaking, currentAgent,
                 upTools, upInstr, greeted, pending, timers, toolResult, apiUrl,
                 PROMPT_REFRESH_SECRET, reloads, unhandled, PROMPTS>>

\* The telephony socket reaches CLOSED (the peer hung up, or a close finished).
\* The bridge registers no 'close' handler on it; the SDK revisions only log.
TwilioClose ==
  /\ conn \in {"accepted", "rejected"}
  /\ TwilioDelivers
  /\ twilioWs' = "closed"
  /\ Handled("twilio.close", "", "", <<>>, <<>>)
  /\ UNCHANGED <<rev, conn, reqPath, source, openaiWs, startSeen, isAssistantSpeaking, currentAgent,
                 upTools, upInstr, greeted, pending, timers, toolResult, apiUrl,
                 PROMPT_REFRESH_SECRET, reloads, unhandled, PROMPTS>>

\* Revisions that register no 'error' listener on the telephony socket: an
\* 'error' event without a listener is thrown by the emitter.
NoErrorListener(r) == r = "bridge"

TwilioError ==
  /\ Live
  /\ twilioWs = "open"
  /\ twilioWs' = "closing"
  /\ unhandled' = (unhandled \/ NoErrorListener(rev))
  /\ Handled("twilio.error", "", "", <<>>, <<>>)
  /\ UNCHANGED <<rev, conn, reqPath, source, openaiWs, startSeen, isAssistantSpeaking, currentAgent,
                 upTools, upInstr, greeted, pending, timers, toolResult, apiUrl,
                 PROMPT_REFRESH_SECRET, reloads, PROMPTS>>

\* ------------------------------------------ bridge: upstream -> telephony
OpenaiDelivers == openaiWs \in {"open", "closing"}

\* An audio handler that raises the flag only for a fragment that carries data.
AudioDeltaWithData(b64) ==
  /\ Bridge
  /\ OpenaiDelivers
  /\ isAssistantSpeaking' = (isAssistantSpeaking \/ b64 # "")
  /\ Handled("audio.delta", b64, "", <<>>,
             IF b64 # "" THEN WsSend(twilioWs, <<b64>>) ELSE <<>>)
  /\ UNCHANGED <<rev, conn, reqPath, source, twilioWs, openaiWs, startSeen, currentAgent, upTools, upInstr,
                 greeted, pending, timers, toolResult, apiUrl,
                 PROMPT_REFRESH_SECRET, reloads, unhandled, PROMPTS>>

\* An audio handler that holds a fragment back while a lookup is awaited.
AudioDeltaBehindLookup(b64) ==
  /\ Bridge
  /\ OpenaiDelivers
  /\ isAssistantSpeaking' = TRUE
  /\ Handled("audio.delta", b64, "", <<>>,
             IF b64 # "" /\ pending = <<>> THEN WsSend(twilioWs, <<b64>>) ELSE <<>>)
  /\ UNCHANGED <<rev, conn, reqPath, source, twilioWs, openaiWs, startSeen, currentAgent, upTools,
                 upInstr, greeted, pending, timers, toolResult, apiUrl, PROMPT_REFRESH_SECRET,
                 reloads, unhandled, PROMPTS>>

\* event.type === 'response.output_audio.delta'
AudioDelta(b64) ==
  /\ Bridge
  /\ OpenaiDelivers
  /\ isAssistantSpeaking' = TRUE
  /\ Handled("audio.delta", b64, "", <<>>,
             IF b64 # "" THEN WsSend(twilioWs, <<b64>>) ELSE <<>>)
  /\ UNCHANGED <<rev, conn, reqPath, source, twilioWs, openaiWs, startSeen, currentAgent, upTools, upInstr,
                 greeted, pending, timers, toolResult, apiUrl,
                 PROMPT_REFRESH_SECRET, reloads, unhandled, PROMPTS>>

\* event.type === 'response.completed' || event.type === 'response.done'
ResponseDone ==
  /\ Bridge
  /\ OpenaiDelivers
  /\ isAssistantSpeaking' = FALSE
  /\ Handled("response.done", "", "", <<>>, <<>>)
  /\ UNCHANGED <<rev, conn, reqPath, source, twilioWs, openaiWs, startSeen, currentAgent, upTools, upInstr,
                 greeted, pending, timers, toolResult, apiUrl,
                 PROMPT_REFRESH_SECRET, reloads, unhandled, PROMPTS>>

\* Error events the model can surface mid-call (error.code / err.message).
ErrorMessages == {"conversation_already_has_active_response", "server_error"}

\* msg.includes('active_response')
IgnoredError(msg) == msg = "conversation_already_has_active_response"

\* An error handler that ends the call.
ErrorHandlerClosesAlways(msg) == TRUE

\* Whether the handler of an upstream error event closes the sockets: the
\* handlers only log (the multi-agent one skips the log for an ignored error).
ErrorHandlerCloses(msg) == FALSE

ErrorLogged(r, msg) == ~(r = "agents" /\ IgnoredError(msg))

\* event.type === 'error': console.error
ErrorEvent(msg) ==
  /\ Bridge
  /\ OpenaiDelivers
  /\ twilioWs' = IF ErrorHandlerCloses(msg) THEN WsClose(twilioWs) ELSE twilioWs
  /\ openaiWs' = IF ErrorHandlerCloses(msg) THEN WsClose(openaiWs) ELSE openaiWs
  /\ Handled("error.event", msg, IF ErrorLogged(rev, msg) THEN "logged" ELSE "ignored",
             <<>>, <<>>)
  /\ UNCHANGED <<rev, conn, reqPath, source, startSeen, isAssistantSpeaking,
                 currentAgent, upTools, upInstr, greeted, pending, timers, toolResult, apiUrl,
                 PROMPT_REFRESH_SECRET, reloads,
                 unhandled, PROMPTS>>

\* An upstream message that is not JSON.  The handler is
\* `async (raw) => { const event = JSON.parse(raw.toString()) ...' with no try
\* block: the throw rejects the promise nobody awaits.
OpenaiInvalid(raw) ==
  /\ Bridge
  /\ OpenaiDelivers
  /\ unhandled' = TRUE
  /\ Handled("openai.invalid", raw, "", <<>>, <<>>)
  /\ UNCHANGED <<rev, conn, reqPath, source, twilioWs, openaiWs, startSeen, isAssistantSpeaking,
                 currentAgent, upTools, upInstr, greeted, pending, timers, toolResult, apiUrl,
                 PROMPT_REFRESH_SECRET, reloads, PROMPTS>>

\* ------------------------------------------------------ bridge: hand-off
\* A text delta: not JSON, or a JSON object with these fields ("" = absent).
TextDeltas ==
  {[json |-> FALSE, intent |-> "", handoff_from |-> "", question |-> ""]} \cup
  [json : {TRUE}, intent : {"items", "router", "pickup"},
   handoff_from : {"", "router", "items"}, question : Questions]

\* looksLikeHandoff: JSON.parse succeeds and obj.intent && obj.handoff_from
looksLikeHandoff(t) == t.json /\ t.intent # "" /\ t.handoff_from # ""

\* The persona handleHandoff switches to, if any.
HandoffTarget(h) == IF h.intent \in {"items", "router"} THEN h.intent ELSE "none"

HandoffTools(p) == IF p = "items" THEN ItemsTools ELSE RouterTools

\* A hand-off that writes the instructions and the tools as two updates.
HandoffMessagesSplit(h) ==
  IF HandoffTarget(h) = "none" THEN <<>>
  ELSE << Msg("session.update", {"instructions"}, Instructions(HandoffTarget(h)), {}, ""),
          Msg("session.update", {"tools"}, "", HandoffTools(HandoffTarget(h)), "") >>
       \o (IF h.question # "" THEN <<UserItem(h.question), ResponseCreate>> ELSE <<>>)

\* What handleHandoff writes: one session.update, then the replayed question
\* and a response request when h.question is set.
HandoffMessages(h) ==
  IF HandoffTarget(h) = "none" THEN <<>>
  ELSE <<SessionUpdate(Instructions(HandoffTarget(h)), HandoffTools(HandoffTarget(h)))>>
       \o (IF h.question # "" THEN <<UserItem(h.question), ResponseCreate>> ELSE <<>>)

\* event.type === 'response.output_text.delta' && event.delta
TextDelta(t) ==
  /\ Bridge
  /\ OpenaiDelivers
  /\ IF looksLikeHandoff(t)
       THEN /\ currentAgent' = IF HandoffTarget(t) = "none" THEN currentAgent
                               ELSE HandoffTarget(t)
            /\ upTools' = IF openaiWs = "open" /\ HandoffTarget(t) # "none"
                          THEN HandoffTools(HandoffTarget(t)) ELSE upTools
            /\ upInstr' = IF openaiWs = "open" /\ HandoffTarget(t) # "none"
                          THEN Instructions(HandoffTarget(t)) ELSE upInstr
            /\ Handled("handoff", t.question, t.intent,
                       WsSend(openaiWs, HandoffMessages(t)), <<>>)
       ELSE /\ UNCHANGED <<currentAgent, upTools, upInstr>>
            /\ Handled("text.delta", "", "", <<>>, <<>>)
  /\ UNCHANGED <<rev, conn, reqPath, source, twilioWs, openaiWs, startSeen, isAssistantSpeaking,
                 greeted, pending, timers, toolResult, apiUrl,
                 PROMPT_REFRESH_SECRET, reloads, unhandled, PROMPTS>>

\* ---------------------------------------------------- bridge: tool calls
BridgeToolNames == {"determine_route", "search_items", "get_pickup_times"}

\* The names handleToolCall acts on.
HandledTools == {"determine_route", "search_items"}

\* event.arguments as it arrives: a JSON text that fits the tool's parameters,
\* or one that does not (a fragment, or fields of the wrong shape).
ToolArgs == {"valid", "malformed"}

\* event.type === 'response.function_call_arguments.delta': handleToolCall
\* starts axios.post with the arguments as they came and the handler is
\* suspended in the await.
FunctionCallDelta(name, args) ==
  /\ Bridge
  /\ OpenaiDelivers
  /\ IF name \in HandledTools
       THEN /\ Len(pending) < MaxPending
            /\ pending' = Append(pending, name)
       ELSE pending' = pending
  /\ Handled("tool.call", name, args, <<>>, <<>>)
  /\ UNCHANGED <<rev, conn, reqPath, source, twilioWs, openaiWs, startSeen, isAssistantSpeaking,
                 currentAgent, upTools, upInstr, greeted, timers, toolResult, apiUrl,
                 PROMPT_REFRESH_SECRET, reloads, unhandled,
                 PROMPTS>>

Remove(seq, i) == SubSeq(seq, 1, i - 1) \o SubSeq(seq, i + 1, Len(seq))

LookupOutcomes == {"ok", "http500", "network"}

\* Whether handleToolCall catches a rejected axios.post (it has no try/catch).
LookupFailureCaught == FALSE

\* The awaited axios.post settles: on success the output is written upstream;
\* axios rejects on a non-2xx answer or a network error.
LookupReturn(i, outcome) ==
  /\ Bridge
  /\ i \in 1..Len(pending)
  /\ pending' = Remove(pending, i)
  /\ unhandled' = (unhandled \/ (outcome # "ok" /\ ~LookupFailureCaught))
  /\ Handled("lookup.return", pending[i], outcome,
             IF outcome = "ok"
               THEN WsSend(openaiWs, <<FunctionCallOutput(pending[i])>>) ELSE <<>>,
             <<>>)
  /\ UNCHANGED <<rev, conn, reqPath, source, twilioWs, openaiWs, startSeen, isAssistantSpeaking,
                 currentAgent, upTools, upInstr, greeted, timers, toolResult, apiUrl,
                 PROMPT_REFRESH_SECRET, reloads, PROMPTS>>

\* ------------------------------------------- bridge: upstream close/error
\* openaiWs.on('close'): twilioWs.close()
OpenaiClose ==
  /\ Bridge
  /\ openaiWs \in {"connecting", "open", "closing"}
  /\ openaiWs' = "closed"
  /\ twilioWs' = WsClose(twilioWs)
  /\ Handled("openai.close", "", "", <<>>, <<>>)
  /\ UNCHANGED <<rev, conn, reqPath, source, startSeen, isAssistantSpeaking, currentAgent, upTools, upInstr,
                 greeted, pending, timers, toolResult, apiUrl,
                 PROMPT_REFRESH_SECRET, reloads, unhandled, PROMPTS>>

\* openaiWs.on('error'): twilioWs.close(); the socket then goes on to close
OpenaiError ==
  /\ Bridge
  /\ openaiWs \in {"connecting", "open"}
  /\ openaiWs' = "closing"
  /\ twilioWs' = WsClose(twilioWs)
  /\ Handled("openai.error", "", "", <<>>, <<>>)
  /\ UNCHANGED <<rev, conn, reqPath, source, startSeen, isAssistantSpeaking, currentAgent, upTools, upInstr,
                 greeted, pending, timers, toolResult, apiUrl,
                 PROMPT_REFRESH_SECRET, reloads, unhandled, PROMPTS>>

\* An escaped exception ends the process (Node's default for an unhandled
\* rejection or an uncaught exception): both sockets drop.
Crash ==
  /\ Live
  /\ unhandled
  /\ conn' = "crashed"
  /\ twilioWs' = "closed"
  /\ openaiWs' = IF openaiWs = "none" THEN "none" ELSE "closed"
  /\ pending' = <<>>
  /\ timers' = <<>>
  /\ Handled("crash", "", "", <<>>, <<>>)
  /\ UNCHANGED <<rev, reqPath, source, startSeen, isAssistantSpeaking, currentAgent,
                 upTools, upInstr, greeted, toolResult, apiUrl,
                 PROMPT_REFRESH_SECRET, reloads, unhandled, PROMPTS>>

\* ------------------------------------------------ bridge: prompt refresh
\* What an authorized POST /refresh-prompts finds in the store: an error (the
\* cache is left alone) or rows whose text has been edited since startup.
RefreshOutcomes == {"unreachable", "edited"}

\* A reload that assigns the router row and leaves the items row to a later turn.
ReloadPromptsRouterFirst(cur, outcome) ==
  IF outcome = "edited" THEN [cur EXCEPT !["router"] = "db2:router"] ELSE cur

\* reloadPromptsFromDB: PROMPTS.router and PROMPTS.items are assigned in place.
ReloadPrompts(cur, outcome) ==
  IF outcome = "edited"
    THEN [p \in Personas |-> IF p \in {"router", "items"} THEN "db2:" \o p ELSE cur[p]]
    ELSE cur

\* The request handler of the HTTP server.  MaxReloads bounds the refreshes
\* that await the store at one time.
MaxReloads == 2

\* "" = PROMPT_REFRESH_SECRET is not set, or set to the empty string
Secrets == {"", ConfiguredSecret}
Methods == {"GET", "POST"}
Urls == {"/refresh-prompts", "/refresh-prompts?force=1", "/"}

\* req.headers['authorization'] || ''
AuthHeaders == {"", "Bearer ", "Bearer " \o ConfiguredSecret, "Bearer wrong", ConfiguredSecret}

Request(method, url, auth) == [method |-> method, url |-> url, auth |-> auth]

\* A check that only compares the header with the expected text.
AuthorizedByHeaderOnly(secret, auth) == auth = "Bearer " \o secret

\* !(!PROMPT_REFRESH_SECRET || authHeader !== `Bearer ${PROMPT_REFRESH_SECRET}`)
Authorized(secret, auth) == secret # "" /\ auth = "Bearer " \o secret

\* The status the handler answers with at once; an authorized refresh answers
\* 200 only after reloadPromptsFromDB has returned.
Answer(req, secret) ==
  IF req.method = "POST" /\ req.url = "/refresh-prompts"
    THEN (IF Authorized(secret, req.auth) THEN "reloading" ELSE "401")
    ELSE "404"

\* http.createServer(async (req, res) => ...), up to the await
HttpRequest(req) ==
  /\ rev = "bridge"
  /\ conn # "crashed"
  /\ Answer(req, PROMPT_REFRESH_SECRET) = "reloading" => reloads < MaxReloads
  /\ reloads' = IF Answer(req, PROMPT_REFRESH_SECRET) = "reloading"
                  THEN reloads + 1 ELSE reloads
  /\ Handled("http", req, Answer(req, PROMPT_REFRESH_SECRET), <<>>, <<>>)
  /\ UNCHANGED <<rev, conn, reqPath, source, twilioWs, openaiWs, startSeen, isAssistantSpeaking,
                 currentAgent, upTools, upInstr, greeted, pending, timers, toolResult, apiUrl,
                 PROMPT_REFRESH_SECRET, unhandled, PROMPTS>>

\* The store answers an awaited reloadPromptsFromDB: the loop over the rows
\* runs to its end in the same turn, then the handler answers 200.
ReloadReturn(outcome) ==
  /\ rev = "bridge"
  /\ conn # "crashed"
  /\ reloads > 0
  /\ reloads' = reloads - 1
  /\ PROMPTS' = ReloadPrompts(PROMPTS, outcome)
  /\ Handled("reload.return", outcome, "200", <<>>, <<>>)
  /\ UNCHANGED <<rev, conn, reqPath, source, twilioWs, openaiWs, startSeen, isAssistantSpeaking,
                 currentAgent, upTools, upInstr, greeted, pending, timers, toolResult, apiUrl,
                 PROMPT_REFRESH_SECRET, unhandled>>

\* POST /refresh-prompts with the right bearer token, at any time while the
\* server runs; the request is not an event of the call's connection.  The
\* request and the store's answer are taken as one step here: no variable of
\* the call changes because a refresh is waiting.
RefreshPrompts(outcome) ==
  /\ rev = "bridge"
  /\ conn # "crashed"
  /\ Authorized(PROMPT_REFRESH_SECRET, "Bearer " \o PROMPT_REFRESH_SECRET)
  /\ PROMPTS' = ReloadPrompts(PROMPTS, outcome)
  /\ Handled("refresh", outcome, "", <<>>, <<>>)
  /\ UNCHANGED <<rev, conn, reqPath, source, twilioWs, openaiWs, startSeen, isAssistantSpeaking,
                 currentAgent, upTools, upInstr, greeted, pending, timers, toolResult, apiUrl,
                 PROMPT_REFRESH_SECRET, reloads,
                 unhandled>>

BridgeNext ==
  \/ OpenaiOpen
  \/ \E p \in MediaPayloads : TwilioMedia(p)
  \/ TwilioStop
  \/ \E f \in InvalidFrames : TwilioInvalid(f)
  \/ \E d \in AudioDeltas : AudioDelta(d)
  \/ ResponseDone
  \/ \E m \in ErrorMessages : ErrorEvent(m)
  \/ \E f \in InvalidFrames : OpenaiInvalid(f)
  \/ \E t \in TextDeltas : TextDelta(t)
  \/ \E n \in BridgeToolNames, a \in ToolArgs : FunctionCallDelta(n, a)
  \/ \E i \in 1..MaxPending, o \in LookupOutcomes : LookupReturn(i, o)
  \/ OpenaiClose
  \/ OpenaiError

\* =========================================================================
\* The SDK revisions: the session is a RealtimeSession over the Twilio
\* transport layer; the repository's code is the tools and the callbacks.
\* =========================================================================
Sdk == rev \in SdkRevs /\ Live

SendMessage(text) == Msg("sendMessage", {}, "", {}, text)

AllTools ==
  {"get_pickup_times", "get_item_info", "transfer_to_pickup", "transfer_to_items",
   "transfer_to_main_menu"}

\* The tools array of each agent the revision constructs.
AgentTools(r, p) ==
  CASE r = "single" -> {"get_pickup_times", "get_item_info"}
    [] p = "master" -> AllTools
    [] p = "router" -> {"transfer_to_pickup", "transfer_to_items"}
                       \cup (IF r = "agents" THEN {"transfer_to_sheitel"} ELSE {})
    [] p = "pickup" -> {"get_pickup_times", "transfer_to_main_menu"}
    [] p = "items" -> {"get_item_info", "transfer_to_main_menu"}
    [] p = "sheitel" -> {"get_sheitel_sales", "transfer_to_main_menu"}
    [] OTHER -> {}

\* The agent the RealtimeSession is constructed with.
SessionAgent(r) == IF r = "master" THEN "master" ELSE "router"

\* config.tools of the new RealtimeSession: the tools the model sees first.
InitialTools(r) ==
  IF r = "master" THEN AgentTools(r, "router") ELSE AgentTools(r, SessionAgent(r))

\* The tools the session can execute: those of its current agent.
LocalTools == AgentTools(rev, currentAgent)

\* session.connect() resolved: the greeting trigger is sent at once.
SessionConnected ==
  /\ Sdk
  /\ openaiWs = "connecting"
  /\ openaiWs' = "open"
  /\ currentAgent' = SessionAgent(rev)
  /\ upTools' = InitialTools(rev)
  /\ upInstr' = Instructions("router")
  /\ greeted' = greeted + 1
  /\ Handled("connected", "", "", <<SendMessage(Greeting)>>, <<>>)
  /\ UNCHANGED <<rev, conn, reqPath, source, twilioWs, startSeen, isAssistantSpeaking, pending,
                 timers, toolResult, apiUrl,
                 PROMPT_REFRESH_SECRET, reloads, unhandled, PROMPTS>>

\* session.connect() rejected: ws.close()
SessionConnectFailed ==
  /\ Sdk
  /\ openaiWs = "connecting"
  /\ openaiWs' = "closed"
  /\ twilioWs' = WsClose(twilioWs)
  /\ Handled("connect.failed", "", "", <<>>, <<>>)
  /\ UNCHANGED <<rev, conn, reqPath, source, startSeen, isAssistantSpeaking, currentAgent, upTools, upInstr,
                 greeted, pending, timers, toolResult, apiUrl,
                 PROMPT_REFRESH_SECRET, reloads, unhandled, PROMPTS>>

\* The session's upstream connection ends; no callback of the repository runs.
SessionClosed ==
  /\ Sdk
  /\ openaiWs = "open"
  /\ openaiWs' = "closed"
  /\ Handled("session.closed", "", "", <<>>, <<>>)
  /\ UNCHANGED <<rev, conn, reqPath, source, twilioWs, startSeen, isAssistantSpeaking, currentAgent,
                 upTools, upInstr, greeted, pending, timers, toolResult, apiUrl,
                 PROMPT_REFRESH_SECRET, reloads, unhandled, PROMPTS>>

\* session.on('error') of part_002 424-429 and 855-857
SessionError(msg) ==
  /\ rev \in {"agents", "single"} /\ Live
  /\ openaiWs = "open"
  /\ twilioWs' = IF ErrorHandlerCloses(msg) THEN WsClose(twilioWs) ELSE twilioWs
  /\ openaiWs' = IF ErrorHandlerCloses(msg) THEN WsClose(openaiWs) ELSE openaiWs
  /\ Handled("error.event", msg, IF ErrorLogged(rev, msg) THEN "logged" ELSE "ignored",
             <<>>, <<>>)
  /\ UNCHANGED <<rev, conn, reqPath, source, startSeen, isAssistantSpeaking,
                 currentAgent, upTools, upInstr, greeted, pending, timers, toolResult, apiUrl,
                 PROMPT_REFRESH_SECRET, reloads,
                 unhandled, PROMPTS>>

\* ------------------------------------------------------- hand-off tools
ReplayDelay == 2500
RouterReplayDelay == 2000
IvrCloseDelay == 500
RouterReplayText == "I need help with something else."

Timer(kind, text, delay, persona) ==
  [kind |-> kind, text |-> text, delay |-> delay, persona |-> persona]

\* A hand-off that arms its replay twice.
ReplayTimersTwice(p, summary) ==
  IF summary # "" THEN <<Timer("replay", summary, ReplayDelay, p),
                         Timer("replay", summary, ReplayDelay, p)>>
  ELSE <<>>

\* if (summary) setTimeout(() => { if (session) session.sendMessage(summary) }, 2500)
ReplayTimers(p, summary) ==
  IF summary # "" THEN <<Timer("replay", summary, ReplayDelay, p)>> ELSE <<>>

\* transfer_to_pickup / transfer_to_items / transfer_to_sheitel of part_002:
\* await session.updateAgent(agent), then the replay timer.
TransferTo(p, summary) ==
  /\ rev = "agents" /\ Live
  /\ openaiWs = "open"
  /\ ("transfer_to_" \o p) \in (upTools \cap LocalTools)
  /\ Len(timers) + Len(ReplayTimers(p, summary)) <= MaxTimers
  /\ currentAgent' = p
  /\ upTools' = AgentTools(rev, p)
  /\ upInstr' = Instructions(p)
  /\ timers' = timers \o ReplayTimers(p, summary)
  /\ Handled("transfer", summary, p,
             <<SessionUpdate(Instructions(p), AgentTools(rev, p))>>, <<>>)
  /\ UNCHANGED <<rev, conn, reqPath, source, twilioWs, openaiWs, startSeen, isAssistantSpeaking,
                 greeted, pending, toolResult, apiUrl,
                 PROMPT_REFRESH_SECRET, reloads, unhandled, PROMPTS>>

\* A main-menu tool that takes every call for a direct one.
ReturnsToIvrNever(src) == FALSE

\* if (source === 'ivr_rebbi'): the call came from the IVR menu and goes back
\* to it instead of to the router agent
ReturnsToIvr(src) == src = "ivr_rebbi"

\* transfer_to_main_menu of part_002
TransferToRouter ==
  /\ rev = "agents" /\ Live
  /\ openaiWs = "open"
  /\ "transfer_to_main_menu" \in (upTools \cap LocalTools)
  /\ Len(timers) < MaxTimers
  /\ IF ReturnsToIvr(source)
       THEN /\ timers' = Append(timers, Timer("close", "", IvrCloseDelay, "ivr"))
            /\ UNCHANGED <<currentAgent, upTools, upInstr>>
            /\ Handled("transfer", "", "ivr", <<>>, <<>>)
       ELSE /\ currentAgent' = "router"
            /\ upTools' = AgentTools(rev, "router")
            /\ upInstr' = Instructions("router")
            /\ timers' = Append(timers,
                                Timer("replay", RouterReplayText, RouterReplayDelay, "router"))
            /\ Handled("transfer", "", "router",
                       <<SessionUpdate(Instructions("router"), AgentTools(rev, "router"))>>,
                       <<>>)
  /\ UNCHANGED <<rev, conn, reqPath, source, twilioWs, openaiWs, startSeen, isAssistantSpeaking,
                 greeted, pending, toolResult, apiUrl,
                 PROMPT_REFRESH_SECRET, reloads, unhandled, PROMPTS>>

\* Timers run in the order of their deadlines: one set earlier with a delay
\* that is not longer runs first.
CanFire(i) == \A j \in 1..(i - 1) : timers[j].delay > timers[i].delay

\* Whether the replay callback checks that its hand-off is still the current
\* one before sending (it only checks `if (session)', which is always set).
ReplayChecksPersona == FALSE

ReplaySends(t) == ~ReplayChecksPersona \/ t.persona = currentAgent

\* A setTimeout callback runs.  A send on a session whose connection has ended
\* is dropped or throws, as the SDK decides.
TimerFire(i, throws) ==
  /\ rev = "agents" /\ Live
  /\ i \in 1..Len(timers)
  /\ CanFire(i)
  /\ timers' = Remove(timers, i)
  /\ IF timers[i].kind = "close"
       THEN /\ twilioWs' = WsClose(twilioWs)
            /\ unhandled' = unhandled
            /\ Handled("timer.close", "", "", <<>>, <<>>)
       ELSE /\ twilioWs' = twilioWs
            /\ unhandled' = (unhandled \/ (ReplaySends(timers[i]) /\ openaiWs # "open" /\ throws))
            /\ Handled("timer.replay", timers[i].text, timers[i].persona,
                       IF ReplaySends(timers[i])
                         THEN WsSend(openaiWs, <<SendMessage(timers[i].text)>>) ELSE <<>>,
                       <<>>)
  /\ UNCHANGED <<rev, conn, reqPath, source, openaiWs, startSeen, isAssistantSpeaking, currentAgent,
                 upTools, upInstr, greeted, pending, toolResult, apiUrl,
                 PROMPT_REFRESH_SECRET, reloads, PROMPTS>>

\* transfer tools of part_001 (session.client.updateSession) and of
\* server.js 404-441 (dispatchSessionUpdate): one session.update carrying the
\* instructions and the tools; the session's own agent stays as constructed.
\* dispatchSessionUpdate sends nothing when it finds no send method.
ManualTransfer(p, sendFound) ==
  /\ rev \in {"manual", "master"} /\ Live
  /\ openaiWs = "open"
  /\ (IF p = "router" THEN "transfer_to_main_menu" ELSE "transfer_to_" \o p)
       \in (upTools \cap LocalTools)
  /\ rev = "manual" => sendFound
  /\ upTools' = IF sendFound THEN AgentTools(rev, p) ELSE upTools
  /\ upInstr' = IF sendFound THEN Instructions(p) ELSE upInstr
  /\ Handled("transfer", "", p,
             IF sendFound THEN <<SessionUpdate(Instructions(p), AgentTools(rev, p))>>
             ELSE <<>>,
             <<>>)
  /\ UNCHANGED <<rev, conn, reqPath, source, twilioWs, openaiWs, startSeen, isAssistantSpeaking,
                 currentAgent, greeted, pending, timers, toolResult, apiUrl,
                 PROMPT_REFRESH_SECRET, reloads, unhandled, PROMPTS>>

\* The model asks for an installed tool the session's agent does not hold:
\* the session cannot execute it.
UnresolvedToolCall(name) ==
  /\ Sdk
  /\ openaiWs = "open"
  /\ name \in upTools \ LocalTools
  /\ Handled("tool.unresolved", name, "", <<>>, <<>>)
  /\ UNCHANGED <<rev, conn, reqPath, source, twilioWs, openaiWs, startSeen, isAssistantSpeaking,
                 currentAgent, upTools, upInstr, greeted, pending, timers, toolResult, apiUrl,
                 PROMPT_REFRESH_SECRET, reloads, unhandled,
                 PROMPTS>>

\* ----------------------------------------------------- normalizeLocation
\* Revisions whose tools are modelled: besides the SDK revisions above,
\*   "first"  src/server.js 1-259    one pickup agent, answers via speakAnswer
\*   "third"  src/server.js 487-737  one pickup agent, reads the store itself
ToolRevs == {"first", "third", "agents", "single"}

\* What the model passes for a location ("" = the argument is absent).
RawLocations == {"", "Lakewood", "Brooklyn", " Flatbush ", "Boro Park", "Deal"}

\* The characters of each sample, for the string methods below.
Spell ==
  ("" :> <<>>)
  @@ ("Lakewood" :> <<"L", "a", "k", "e", "w", "o", "o", "d">>)
  @@ ("Brooklyn" :> <<"B", "r", "o", "o", "k", "l", "y", "n">>)
  @@ (" Flatbush " :> <<" ", "F", "l", "a", "t", "b", "u", "s", "h", " ">>)
  @@ ("Boro Park" :> <<"B", "o", "r", "o", " ", "P", "a", "r", "k">>)
  @@ ("Deal" :> <<"D", "e", "a", "l">>)

UpperToLower == ("L" :> "l") @@ ("B" :> "b") @@ ("F" :> "f") @@ ("P" :> "p") @@ ("D" :> "d")

\* String.prototype.toLowerCase
toLowerCase(cs) ==
  [i \in 1..Len(cs) |-> IF cs[i] \in DOMAIN UpperToLower THEN UpperToLower[cs[i]] ELSE cs[i]]

RECURSIVE trimStart(_)
trimStart(cs) == IF cs # <<>> /\ Head(cs) = " " THEN trimStart(Tail(cs)) ELSE cs

RECURSIVE trimEnd(_)
trimEnd(cs) ==
  IF cs # <<>> /\ cs[Len(cs)] = " " THEN trimEnd(SubSeq(cs, 1, Len(cs) - 1)) ELSE cs

\* String.prototype.trim
trim(cs) == trimEnd(trimStart(cs))

\* The string a sequence of characters spells.
RECURSIVE Text(_)
Text(cs) == IF cs = <<>> THEN "" ELSE Head(cs) \o Text(Tail(cs))

\* A normalised location ("" = the property is not set).
Loc(region, city) == [region |-> region, city |-> city]

\* The synonym table of each revision.
LOCATION_SYNONYMS(r) ==
  CASE r = "first" ->
         ("boro park" :> Loc("Brooklyn", "")) @@ ("boropark" :> Loc("Brooklyn", ""))
         @@ ("flatbush" :> Loc("Brooklyn", "")) @@ ("brooklyn" :> Loc("Brooklyn", ""))
         @@ ("lakewood" :> Loc("", "Lakewood")) @@ ("monsey" :> Loc("", "Monsey"))
         @@ ("five towns" :> Loc("Five Towns", ""))
    [] r = "third" ->
         ("boro park" :> Loc("Brooklyn", "")) @@ ("boropark" :> Loc("Brooklyn", ""))
         @@ ("flatbush" :> Loc("Brooklyn", "")) @@ ("five towns" :> Loc("Five Towns", ""))
         @@ ("far rockaway" :> Loc("Far Rockaway", ""))
    [] OTHER ->
         ("boro park" :> Loc("Brooklyn", "")) @@ ("boropark" :> Loc("Brooklyn", ""))
         @@ ("flatbush" :> Loc("Brooklyn", "")) @@ ("brooklyn" :> Loc("Brooklyn", ""))
         @@ ("lakewood" :> Loc("Lakewood", "")) @@ ("monsey" :> Loc("Monsey", ""))
         @@ ("five towns" :> Loc("Five Towns", ""))

\* normalizeLocation(raw).  The first revision returns the table's entry, or
\* { city: raw }; the third returns a string (held here as the region); the
\* part_002 revisions always return { region }.
normalizeLocation(r, raw) ==
  IF raw = "" THEN Loc("", "")
  ELSE LET key == Text(trim(toLowerCase(Spell[raw])))
           table == LOCATION_SYNONYMS(r)
           mapped == IF key \in DOMAIN table THEN table[key] ELSE Loc("", "")
       IN CASE r = "first" -> IF key \in DOMAIN table THEN mapped ELSE Loc("", raw)
            [] r = "third" -> Loc(IF key \in DOMAIN table THEN mapped.region ELSE raw, "")
            [] OTHER -> IF mapped.region # "" THEN Loc(mapped.region, "")
                        ELSE IF mapped.city # "" THEN Loc(mapped.city, "")
                        ELSE Loc(raw, "")

\* String(undefined), as URLSearchParams.set stores a property that is not set
Undefined == "undefined"

\* Revisions whose getPickupTimes has `if (norm.city) params.set('region', norm.region)'
SetsRegionFromCity(r) == r \in {"first", "single"}

\* The value of the 'region' parameter of the request ("" = no parameter).
RegionParam(r, norm) ==
  IF SetsRegionFromCity(r) /\ norm.city # ""
    THEN (IF norm.region # "" THEN norm.region ELSE Undefined)
    ELSE norm.region

\* The request getPickupTimes(city || region) sends: the query string of
\* apiUrl, or for the third revision the filter of the store query.  None of
\* the values that occur needs percent-encoding.
ApiUrl(r, city, region) ==
  LET norm == normalizeLocation(r, IF city # "" THEN city ELSE region) IN
  IF r = "third"
    THEN "region.ilike.%" \o norm.region \o "%,city.ilike.%" \o norm.region \o "%"
    ELSE IF RegionParam(r, norm) = "" THEN "pickup-times?"
         ELSE "pickup-times?region=" \o RegionParam(r, norm)

\* ------------------------------------------------------ get_pickup_times
\* A row of the schedule service ("" = field absent).
Row(tbd, date, start, end, address) ==
  [region |-> "Lakewood", city |-> "Lakewood", is_tbd |-> tbd, event_date |-> date,
   start_time |-> start, end_time |-> end, full_address |-> address,
   location_name |-> "", state |-> "NJ"]

RowSamples ==
  { Row(FALSE, "2025-09-14", "17:00:00", "21:00:00", "123 Main St"),
    Row(TRUE, "", "", "", ""),
    Row(FALSE, "", "", "", "") }

\* What fetch() of the pickup-times API comes back with.
Fetches ==
  {[kind |-> "http500", rows |-> <<>>], [kind |-> "network", rows |-> <<>>],
   [kind |-> "ok", rows |-> <<>>]}
  \cup {[kind |-> "ok", rows |-> <<r>>] : r \in RowSamples}

Cities == {"", "Lakewood"}
Regions == {"", "Brooklyn"}

Or(a, b) == IF a # "" THEN a ELSE b

\* speakAnswer(key, params): the template `key' rendered with the parameters.
SpeakAnswer(key, city, date, window, address) ==
  [key |-> key, city |-> city, date |-> date, time_window |-> window, address |-> address]

Literal(text) == SpeakAnswer("literal:" \o text, "", "", "", "")

ToolReturn(spoken, has, n) ==
  [spoken_text |-> spoken, has_results |-> has, n_results |-> n, threw |-> FALSE]

\* getPickupTimes of part_002 84-101: its own try/catch turns a failed or
\* non-2xx fetch into an empty result list.
GetPickupTimesCatching(fetch) ==
  [threw |-> FALSE, results |-> IF fetch.kind = "ok" THEN fetch.rows ELSE <<>>]

\* A lookup that swallows every failure and answers with no rows.
GetPickupTimesSwallowing(fetch) ==
  [threw |-> FALSE, results |-> IF fetch.kind = "ok" THEN fetch.rows ELSE <<>>]

\* getPickupTimes of part_002 555-575 and server.js 69-89: throws on a non-2xx
\* answer; a network failure rejects the fetch itself.
GetPickupTimesThrowing(fetch) ==
  [threw |-> fetch.kind # "ok", results |-> IF fetch.kind = "ok" THEN fetch.rows ELSE <<>>]

TimeTable ==
  [t \in {"17:00:00", "21:00:00"} |-> IF t = "17:00:00" THEN <<17, 0>> ELSE <<21, 0>>]

\* formatTime24To12: "17:00:00" -> "5:00 PM"
formatTime24To12(t) ==
  IF t = "" THEN ""
  ELSE LET h == TimeTable[t][1]
           m == TimeTable[t][2]
           h12 == IF h % 12 = 0 THEN 12 ELSE h % 12
       IN ToString(h12) \o ":" \o (IF m < 10 THEN "0" ELSE "") \o ToString(m)
          \o (IF h < 12 THEN " AM" ELSE " PM")

\* formatSpokenDate: weekday, month and day of the ISO date
formatSpokenDate(d) ==
  IF d = "" THEN "" ELSE IF d = "2025-09-14" THEN "Sunday, September 14" ELSE "Invalid Date"

\* [location_name, ..., city, state, ...].filter(Boolean).join(', ')
JoinedAddress(row) ==
  IF row.location_name # "" THEN row.location_name \o ", " \o row.city \o ", " \o row.state
  ELSE row.city \o ", " \o row.state

\* pickupTool.execute of part_002 175-207 (the multi-agent revision)
PickupExecuteAgents(city, region, fetch) ==
  LET got == GetPickupTimesCatching(fetch) IN
  IF got.threw
    THEN ToolReturn(Literal("schedule_trouble"), "absent", 0)
  ELSE IF Len(got.results) = 0
    THEN ToolReturn(SpeakAnswer("pickup_not_found", city, "", "", ""), "absent", 0)
  ELSE LET first == got.results[1]
           cityLabel == Or(first.region, Or(first.city, Or(city, Or(region, "your location"))))
       IN IF first.is_tbd
            THEN ToolReturn(SpeakAnswer("pickup_tbd", cityLabel, "", "", ""), "absent", 1)
            ELSE ToolReturn(SpeakAnswer("pickup_success", cityLabel, first.event_date,
                                        first.start_time \o " to " \o first.end_time,
                                        first.full_address), "absent", 1)

\* pickupTool.execute of part_002 631-715 (the single-agent revision)
PickupExecuteSingle(city, region, fetch) ==
  LET got == GetPickupTimesThrowing(fetch) IN
  IF got.threw
    THEN ToolReturn(SpeakAnswer("fallback_error", "", "", "", ""), "false", 0)
  ELSE IF Len(got.results) = 0
    THEN ToolReturn(SpeakAnswer("pickup_not_found", city, "", "", ""), "false", 0)
  ELSE LET first == got.results[1]
           cityLabel == Or(first.region, Or(first.city, Or(city, Or(region, "your location"))))
           start == formatTime24To12(first.start_time)
           end == formatTime24To12(first.end_time)
       IN IF first.is_tbd
            THEN ToolReturn(SpeakAnswer("pickup_tbd", cityLabel, "", "", ""), "false",
                            Len(got.results))
            ELSE ToolReturn(SpeakAnswer("pickup_success", cityLabel,
                                        formatSpokenDate(first.event_date),
                                        IF start # "" /\ end # ""
                                          THEN start \o " to " \o end ELSE "",
                                        Or(first.full_address, JoinedAddress(first))),
                            "true", Len(got.results))

TbdWindow == "a time that will be announced closer to the event"

\* pickupTool.execute of server.js 112-177 (the first revision): one success
\* template for every row, the to-be-determined case as its time window.
PickupExecuteFirst(city, region, fetch) ==
  LET got == GetPickupTimesThrowing(fetch) IN
  IF got.threw
    THEN ToolReturn(SpeakAnswer("fallback_error", "", "", "", ""), "false", 0)
  ELSE IF Len(got.results) = 0
    THEN ToolReturn(SpeakAnswer("pickup_not_found", city, "", "", ""), "false", 0)
  ELSE LET first == got.results[1]
           start == formatTime24To12(first.start_time)
           end == formatTime24To12(first.end_time)
       IN ToolReturn(SpeakAnswer("pickup_success",
                                 Or(first.city, Or(city, Or(region, "your location"))),
                                 first.event_date,
                                 IF first.is_tbd THEN TbdWindow
                                 ELSE IF start # "" /\ end # ""
                                   THEN start \o " and " \o end ELSE "",
                                 Or(first.full_address, JoinedAddress(first))),
                     "true", Len(got.results))

\* formatSpokenDate of server.js 564-577: with the ordinal suffix
formatSpokenDateOrdinal(d) ==
  IF d = "" THEN "" ELSE IF d = "2025-09-14" THEN "Sunday, September 14th" ELSE "Invalid Date"

\* formatSpokenTime(start, end)
formatSpokenTime(start, end) ==
  IF start = "" \/ end = "" THEN ""
  ELSE formatTime24To12(start) \o " to " \o formatTime24To12(end)

\* pickupTool.execute of server.js 598-645 (the third revision): the store is
\* read directly (at most one row); an error or no row gives the not-found
\* template, and the templates are filled in with String.replace.
PickupExecuteThird(city, fetch) ==
  IF fetch.kind # "ok" \/ Len(fetch.rows) = 0
    THEN ToolReturn(SpeakAnswer("pickup_not_found", "", "", "", ""), "absent", 0)
  ELSE LET loc == fetch.rows[1]
           cityLabel == Or(loc.region, loc.city)
       IN IF loc.is_tbd
            THEN ToolReturn(SpeakAnswer("pickup_tbd", cityLabel, "", "", ""), "absent", 1)
            ELSE ToolReturn(SpeakAnswer("pickup_success", cityLabel,
                                        formatSpokenDateOrdinal(loc.event_date),
                                        formatSpokenTime(loc.start_time, loc.end_time),
                                        JoinedAddress(loc)),
                            "absent", 1)

\* pickupTool.execute of part_001 85-94 and server.js 370-378: a fixed answer
PickupExecuteStub(city, region) ==
  ToolReturn(SpeakAnswer("pickup_success", Or(city, Or(region, "your location")),
                         "Tuesday", "5pm to 9pm", "123 Main St"), "absent", 0)

PickupExecute(r, city, region, fetch) ==
  CASE r = "agents" -> PickupExecuteAgents(city, region, fetch)
    [] r = "single" -> PickupExecuteSingle(city, region, fetch)
    [] r = "first" -> PickupExecuteFirst(city, region, fetch)
    [] r = "third" -> PickupExecuteThird(city, fetch)
    [] OTHER -> PickupExecuteStub(city, region)

\* The revisions whose get_pickup_times asks the schedule service.
Fetching(r) == r \in ToolRevs

NoFetch == [kind |-> "none", rows |-> <<>>]

\* The model calls get_pickup_times and the session runs the tool's execute.
ExecPickup(city, region, fetch) ==
  /\ Sdk
  /\ openaiWs = "open"
  /\ Fetching(rev) = (fetch # NoFetch)
  /\ "get_pickup_times" \in (upTools \cap LocalTools)
  /\ toolResult' = PickupExecute(rev, city, region, fetch)
  /\ apiUrl' = IF Fetching(rev) THEN ApiUrl(rev, city, region) ELSE apiUrl
  /\ unhandled' = (unhandled \/ toolResult'.threw)
  /\ Handled("pickup", city, fetch.kind,
             <<FunctionCallOutput(toolResult'.spoken_text.key)>>, <<>>)
  /\ UNCHANGED <<rev, conn, reqPath, source, twilioWs, openaiWs, startSeen, isAssistantSpeaking,
                 currentAgent, upTools, upInstr, greeted, pending, timers,
                 PROMPT_REFRESH_SECRET, reloads, PROMPTS>>

\* --------------------------------------------------------- get_item_info
MaxItemRows == 3
ItemNames == {"Cheese Pack", "Salmon", "Grape Juice"}

\* What getItemRecords returns: the `item' field of each row ("" = no name).
ItemRowLists == UNION {[1..n -> ItemNames \cup {""}] : n \in 0..MaxItemRows}

Focuses == {"kashrus", "description", "both"}
ItemQueries == {"salmon"}

\* Array.prototype.join
RECURSIVE Join(_, _)
Join(seq, sep) ==
  IF seq = <<>> THEN ""
  ELSE IF Len(seq) = 1 THEN seq[1]
  ELSE seq[1] \o sep \o Join(Tail(seq), sep)

\* items.map((i) => i.item).filter(Boolean)
Named(rows) == SelectSeq(rows, LAMBDA n : n # "")

\* part_002 226-232: const options = names.join(', ')
OptionsJoined(names) == Join(names, ", ")

\* part_002 746-758: one name, 'A and B', or 'A, B, and C'
OptionsOxford(names) ==
  IF Len(names) = 1 THEN names[1]
  ELSE IF Len(names) = 2 THEN names[1] \o " and " \o names[2]
  ELSE Join(SubSeq(names, 1, Len(names) - 1), ", ") \o ", and "
       \o (IF names = <<>> THEN Undefined ELSE names[Len(names)])

\* speakAnswer(key, { options }) / speakAnswer(key, { item, ... })
ItemAnswer(key, options, item) == [key |-> key, options |-> options, item |-> item]

ItemKey(focus) ==
  CASE focus = "kashrus" -> "item_kashrus_only"
    [] focus = "description" -> "item_description_only"
    [] OTHER -> "item_full"

\* itemInfoTool.execute of part_002 215-250 (multi-agent) and 733-795 (single)
ItemExecute(r, query, focus, rows) ==
  IF Len(rows) = 0
    THEN ToolReturn(ItemAnswer("item_not_found", "", ""),
                    IF r = "single" THEN "false" ELSE "absent", 0)
  ELSE IF Len(rows) > 1
    THEN ToolReturn(ItemAnswer("item_ambiguous",
                               IF r = "single" THEN OptionsOxford(Named(rows))
                               ELSE OptionsJoined(Named(rows)),
                               ""),
                    IF r = "single" THEN "false" ELSE "absent", Len(rows))
  ELSE ToolReturn(ItemAnswer(ItemKey(focus), "",
                             IF r = "single" THEN Or(rows[1], query) ELSE rows[1]),
                  IF r = "single" THEN "true" ELSE "absent", 1)

SdkNext ==
  \/ SessionConnected
  \/ SessionConnectFailed
  \/ SessionClosed
  \/ \E m \in ErrorMessages : SessionError(m)
  \/ \E p \in {"pickup", "items", "sheitel"}, q \in Questions : TransferTo(p, q)
  \/ TransferToRouter
  \/ \E i \in 1..MaxTimers, th \in BOOLEAN : TimerFire(i, th)
  \/ \E p \in {"pickup", "items", "router"}, f \in BOOLEAN : ManualTransfer(p, f)
  \/ \E n \in AllTools : UnresolvedToolCall(n)
  \/ \E c \in Cities, r \in Regions, f \in Fetches \cup {NoFetch} : ExecPickup(c, r, f)

Next ==
  \/ \E path \in Paths : Connection(path)
  \/ TwilioStart
  \/ TwilioClose
  \/ TwilioError
  \/ Crash
  \/ \E o \in RefreshOutcomes : RefreshPrompts(o)
  \/ BridgeNext
  \/ SdkNext

Spec == Init /\ [][Next]_vars

\* ======================================================================
\* The handlers of the raw bridge on their own (server.js 739-1117): a call
\* of another revision sees only its connection and telephony events here.
\* ======================================================================
BridgeCallNext ==
  \/ \E path \in Paths : Connection(path)
  \/ TwilioStart
  \/ TwilioClose
  \/ TwilioError
  \/ Crash
  \/ \E o \in RefreshOutcomes : RefreshPrompts(o)
  \/ BridgeNext

BridgeCall == Init /\ [][BridgeCallNext]_vars

\* ======================================================================
\* The hand-off tools of the multi-agent revision (part_002 1-457) and their
\* timers on their own, for a call arriving directly or from the IVR menu.
\* ======================================================================
AgentsHandoffNext ==
  \/ \E path \in Paths : Connection(path)
  \/ TwilioStart
  \/ TwilioClose
  \/ TwilioError
  \/ Crash
  \/ SessionConnected
  \/ SessionConnectFailed
  \/ SessionClosed
  \/ \E m \in ErrorMessages : SessionError(m)
  \/ \E p \in {"pickup", "items", "sheitel"}, q \in Questions : TransferTo(p, q)
  \/ TransferToRouter
  \/ \E i \in 1..MaxTimers, th \in BOOLEAN : TimerFire(i, th)

AgentsHandoff == Init /\ [][AgentsHandoffNext]_vars

\* ======================================================================
\* The tools on their own: a connected session of a revision whose tools
\* ask a backing service, and the model calling them with any arguments.
\* ======================================================================
ToolsInit ==
  /\ rev \in ToolRevs
  /\ conn = "accepted" /\ reqPath = "/twilio-stream" /\ source = "direct"
  /\ twilioWs = "open" /\ openaiWs = "open"
  /\ startSeen = TRUE /\ isAssistantSpeaking = FALSE
  /\ currentAgent = "router"
  /\ upTools = {} /\ upInstr = ""
  /\ upSent = <<>> /\ twSent = <<>>
  /\ greeted = 0 /\ pending = <<>> /\ timers = <<>>
  /\ toolResult = ToolReturn(SpeakAnswer("", "", "", "", ""), "absent", 0)
  /\ apiUrl = "" /\ PROMPT_REFRESH_SECRET = "" /\ reloads = 0
  /\ unhandled = FALSE
  /\ PROMPTS = BuiltinPrompts(rev)
  /\ evt = NoEvt

ToolCalled(kind, input, answer, request) ==
  /\ toolResult' = answer
  /\ apiUrl' = request
  /\ Handled(kind, input, request, <<FunctionCallOutput(answer.spoken_text.key)>>, <<>>)
  /\ UNCHANGED <<rev, conn, reqPath, source, twilioWs, openaiWs, startSeen, isAssistantSpeaking,
                 currentAgent, upTools, upInstr, greeted, pending, timers,
                 PROMPT_REFRESH_SECRET, reloads, unhandled, PROMPTS>>

\* get_pickup_times({ region, city }) (the third revision takes { city } only)
CallPickupTimes(city, region, fetch) ==
  /\ rev = "third" => region = ""
  /\ ToolCalled("pickup", [city |-> city, region |-> region, fetch |-> fetch],
                PickupExecute(rev, city, region, fetch), ApiUrl(rev, city, region))

\* get_item_info({ item_query, focus })
CallItemInfo(query, focus, rows) ==
  /\ rev \in {"agents", "single"}
  /\ ToolCalled("item", [query |-> query, focus |-> focus, rows |-> rows],
                ItemExecute(rev, query, focus, rows), apiUrl)

ToolsNext ==
  \/ \E c \in RawLocations, r \in Regions, f \in Fetches : CallPickupTimes(c, r, f)
  \/ \E q \in ItemQueries, fo \in Focuses, rows \in ItemRowLists : CallItemInfo(q, fo, rows)

Tools == ToolsInit /\ [][ToolsNext]_vars

\* ======================================================================
\* The HTTP server of the raw bridge (server.js 797-814) next to one call:
\* requests arrive at any time, an authorized refresh awaits the store, and
\* the call's handlers read PROMPTS in the turns between.
\* ======================================================================
HttpServerInit ==
  /\ rev = "bridge"
  /\ conn = "idle" /\ reqPath = "" /\ source = "direct"
  /\ twilioWs = "open" /\ openaiWs = "none"
  /\ startSeen = FALSE /\ isAssistantSpeaking = FALSE
  /\ currentAgent = "router"
  /\ upTools = {} /\ upInstr = ""
  /\ upSent = <<>> /\ twSent = <<>>
  /\ greeted = 0 /\ pending = <<>> /\ timers = <<>>
  /\ toolResult = ToolReturn(SpeakAnswer("", "", "", "", ""), "absent", 0)
  /\ apiUrl = "" /\ reloads = 0
  /\ PROMPT_REFRESH_SECRET \in Secrets
  /\ unhandled = FALSE
  /\ PROMPTS \in {LoadPrompts("bridge", o) : o \in StoreOutcomes}
  /\ evt = NoEvt

HttpServerNext ==
  \/ \E m \in Methods, u \in Urls, a \in AuthHeaders : HttpRequest(Request(m, u, a))
  \/ \E o \in RefreshOutcomes : ReloadReturn(o)
  \/ Connection("/twilio-stream")
  \/ OpenaiOpen
  \/ \E t \in TextDeltas : TextDelta(t)
  \/ OpenaiClose

HttpServer == HttpServerInit /\ [][HttpServerNext]_vars

\* ======================================================================
\* One call of the raw bridge whose model asks for one tool at a time.
\* The runtime carries every runnable step through: an escaped exception
\* ends the process (WF on Crash).  Nothing in the code bounds the wait of
\* `await axios.post(url, args)': no timeout option is passed and axios waits
\* without limit by default, so the answer of the backing service is the
\* only step that ends the wait, and it is the service's to take or not.
\* ======================================================================
LookupWaitNext ==
  \/ Connection("/twilio-stream")
  \/ OpenaiOpen
  \/ TwilioStart
  \/ \E p \in MediaPayloads : TwilioMedia(p)
  \/ \E b \in AudioDeltas : AudioDelta(b)
  \/ ResponseDone
  \/ pending = <<>> /\ \E n \in HandledTools, a \in ToolArgs : FunctionCallDelta(n, a)
  \/ \E o \in LookupOutcomes : LookupReturn(1, o)
  \/ OpenaiClose
  \/ Crash

LookupWait == HttpServerInit /\ [][LookupWaitNext]_vars /\ WF_vars(Crash)

\* ======================================================================
\* Two concurrent calls on the raw bridge.  Every `let' and `const' of the
\* connection handler (server.js 824-846) exists once per call, so here the
\* variables that model them hold one value per call; PROMPTS is the one
\* module-level object both calls read.
\* ======================================================================
Sessions == {"A", "B"}

\* An assignment to a variable that all calls would share.
AssignShared(f, s, v) == [x \in DOMAIN f |-> v]

\* An assignment to a variable of call s's closure.
Assign(f, s, v) == [f EXCEPT ![s] = v]

\* What a handler of call s writes: the sockets in its scope are its own.
Wrote(s, msgs) == [x \in Sessions |-> IF x = s THEN msgs ELSE <<>>]

TwoCallsInit ==
  /\ rev = "bridge"
  /\ conn = [s \in Sessions |-> "idle"]
  /\ reqPath = "" /\ source = "direct"
  /\ twilioWs = [s \in Sessions |-> "open"]
  /\ openaiWs = [s \in Sessions |-> "none"]
  /\ startSeen = FALSE
  /\ isAssistantSpeaking = [s \in Sessions |-> FALSE]
  /\ currentAgent = [s \in Sessions |-> "router"]
  /\ upTools = {} /\ upInstr = ""
  /\ upSent = Wrote("A", <<>>) /\ twSent = Wrote("A", <<>>)
  /\ greeted = 0 /\ pending = <<>> /\ timers = <<>>
  /\ toolResult = ToolReturn(SpeakAnswer("", "", "", "", ""), "absent", 0)
  /\ apiUrl = "" /\ PROMPT_REFRESH_SECRET = ConfiguredSecret /\ reloads = 0
  /\ unhandled = FALSE
  /\ PROMPTS \in {LoadPrompts("bridge", o) : o \in StoreOutcomes}
  /\ evt = NoEvt

\* A handler run of call s: the event, and what was written to which call.
HandledOf(s, kind, arg, up, tw) ==
  /\ evt' = Evt(kind, arg, s)
  /\ upSent' = Wrote(s, up)
  /\ twSent' = Wrote(s, tw)
  /\ UNCHANGED <<rev, reqPath, source, startSeen, upTools, upInstr, greeted, pending, timers,
                 toolResult, apiUrl,
                 PROMPT_REFRESH_SECRET, reloads, unhandled>>

\* wss.on('connection') for call s, on the right path
ConnectionOf(s) ==
  /\ conn[s] = "idle"
  /\ conn' = Assign(conn, s, "accepted")
  /\ openaiWs' = Assign(openaiWs, s, "connecting")
  /\ isAssistantSpeaking' = Assign(isAssistantSpeaking, s, FALSE)
  /\ currentAgent' = Assign(currentAgent, s, "router")
  /\ HandledOf(s, "connection", "/twilio-stream", <<>>, <<>>)
  /\ UNCHANGED <<twilioWs, PROMPTS>>

OpenaiOpenOf(s) ==
  /\ conn[s] = "accepted"
  /\ openaiWs[s] = "connecting"
  /\ openaiWs' = Assign(openaiWs, s, "open")
  /\ HandledOf(s, "open", "", OpenMessages, <<>>)
  /\ UNCHANGED <<conn, twilioWs, isAssistantSpeaking, currentAgent, PROMPTS>>

TwilioMediaOf(s, payload) ==
  /\ conn[s] = "accepted"
  /\ twilioWs[s] \in {"open", "closing"}
  /\ HandledOf(s, "media", payload,
               IF ForwardsMedia(isAssistantSpeaking[s])
                 THEN WsSend(openaiWs[s], <<AudioAppend(payload)>>) ELSE <<>>,
               <<>>)
  /\ UNCHANGED <<conn, twilioWs, openaiWs, isAssistantSpeaking, currentAgent, PROMPTS>>

TwilioStopOf(s) ==
  /\ conn[s] = "accepted"
  /\ twilioWs[s] \in {"open", "closing"}
  /\ openaiWs' = Assign(openaiWs, s, WsClose(openaiWs[s]))
  /\ HandledOf(s, "stop", "", <<>>, <<>>)
  /\ UNCHANGED <<conn, twilioWs, isAssistantSpeaking, currentAgent, PROMPTS>>

AudioDeltaOf(s, b64) ==
  /\ conn[s] = "accepted"
  /\ openaiWs[s] \in {"open", "closing"}
  /\ isAssistantSpeaking' = Assign(isAssistantSpeaking, s, TRUE)
  /\ HandledOf(s, "audio.delta", b64, <<>>,
               IF b64 # "" THEN WsSend(twilioWs[s], <<b64>>) ELSE <<>>)
  /\ UNCHANGED <<conn, twilioWs, openaiWs, currentAgent, PROMPTS>>

ResponseDoneOf(s) ==
  /\ conn[s] = "accepted"
  /\ openaiWs[s] \in {"open", "closing"}
  /\ isAssistantSpeaking' = Assign(isAssistantSpeaking, s, FALSE)
  /\ HandledOf(s, "response.done", "", <<>>, <<>>)
  /\ UNCHANGED <<conn, twilioWs, openaiWs, currentAgent, PROMPTS>>

\* handleHandoff of call s
HandoffOf(s, h) ==
  /\ conn[s] = "accepted"
  /\ openaiWs[s] \in {"open", "closing"}
  /\ looksLikeHandoff(h)
  /\ currentAgent' = IF HandoffTarget(h) = "none" THEN currentAgent
                     ELSE Assign(currentAgent, s, HandoffTarget(h))
  /\ HandledOf(s, "handoff", h.intent, WsSend(openaiWs[s], HandoffMessages(h)), <<>>)
  /\ UNCHANGED <<conn, twilioWs, openaiWs, isAssistantSpeaking, PROMPTS>>

OpenaiCloseOf(s) ==
  /\ conn[s] = "accepted"
  /\ openaiWs[s] \in {"connecting", "open", "closing"}
  /\ openaiWs' = Assign(openaiWs, s, "closed")
  /\ twilioWs' = Assign(twilioWs, s, WsClose(twilioWs[s]))
  /\ HandledOf(s, "openai.close", "", <<>>, <<>>)
  /\ UNCHANGED <<conn, isAssistantSpeaking, currentAgent, PROMPTS>>

\* POST /refresh-prompts: an event of no call
RefreshPromptsShared(outcome) ==
  /\ PROMPTS' = ReloadPrompts(PROMPTS, outcome)
  /\ evt' = Evt("refresh", outcome, "none")
  /\ upSent' = Wrote("A", <<>>) /\ twSent' = Wrote("A", <<>>)
  /\ UNCHANGED <<rev, conn, reqPath, source, twilioWs, openaiWs, startSeen, isAssistantSpeaking,
                 currentAgent, upTools, upInstr, greeted, pending, timers, toolResult, apiUrl,
                 PROMPT_REFRESH_SECRET, reloads,
                 unhandled>>

TwoCallsNext ==
  \/ \E s \in Sessions : ConnectionOf(s)
  \/ \E s \in Sessions : OpenaiOpenOf(s)
  \/ \E s \in Sessions, p \in MediaPayloads : TwilioMediaOf(s, p)
  \/ \E s \in Sessions : TwilioStopOf(s)
  \/ \E s \in Sessions, d \in AudioDeltas : AudioDeltaOf(s, d)
  \/ \E s \in Sessions : ResponseDoneOf(s)
  \/ \E s \in Sessions, h \in TextDeltas : HandoffOf(s, h)
  \/ \E s \in Sessions : OpenaiCloseOf(s)
  \/ \E o \in RefreshOutcomes : RefreshPromptsShared(o)

TwoCalls == TwoCallsInit /\ [][TwoCallsNext]_vars

\* ======================================================================
\* Properties
\* ======================================================================
Count(seq, ty) == Cardinality({i \in 1..Len(seq) : seq[i].type = ty})

\* C1: the greeting trigger is sent at most once per call, and never before
\* both the telephony 'start' frame and the upstream 'open' have been seen.
C1_GreetingGated ==
  /\ greeted <= 1
  /\ greeted >= 1 => (startSeen /\ openaiWs \notin {"none", "connecting"})

\* C2: while isAssistantSpeaking is true a telephony media frame is dropped:
\* it is not written upstream, and no later step writes it (nothing is
\* buffered); response completion leaves the flag false, and with the flag
\* false a media frame is written upstream as one audio append of its payload.
C2_SpeakingGate ==
  /\ (evt.kind = "media" /\ isAssistantSpeaking) => upSent = <<>>
  /\ (evt.kind = "media" /\ ~isAssistantSpeaking /\ openaiWs = "open")
       => upSent = <<AudioAppend(evt.arg)>>
  /\ evt.kind = "response.done" => ~isAssistantSpeaking
  /\ \A i \in 1..Len(upSent) :
       upSent[i].type = "input_audio_buffer.append"
         => (evt.kind = "media" /\ ~isAssistantSpeaking /\ upSent[i].text = evt.arg)

C2_Witness ==
  /\ evt.kind = "media" /\ isAssistantSpeaking
  /\ openaiWs = "open" /\ startSeen
  /\ upSent = <<>>

\* C3: when a second hand-off to another persona happens before the first
\* hand-off's replay timer runs, the first hand-off's replay is discarded:
\* its timer writes nothing upstream once its persona is no longer active.
C3_StaleReplayDiscarded ==
  (evt.kind = "timer.replay" /\ evt.aux # currentAgent) => upSent = <<>>

\* C4: with the router active, a hand-off to pickup with context T makes
\* pickup the active persona and arms exactly one replay of T with the fixed
\* delay, sending no user message itself; when that timer runs on a connected
\* session it writes exactly one user message, with text T, and is spent; no
\* other step writes a user message other than the greeting.
C4_Step ==
  /\ (evt'.kind = "transfer" /\ evt'.aux = "pickup" /\ evt'.arg # "")
       => /\ currentAgent = "router"
          /\ currentAgent' = "pickup"
          /\ timers' = Append(timers, Timer("replay", evt'.arg, ReplayDelay, "pickup"))
          /\ Count(upSent', "sendMessage") = 0
  /\ (evt'.kind = "timer.replay" /\ openaiWs = "open")
       => /\ upSent' = <<SendMessage(evt'.arg)>>
          /\ Len(timers') = Len(timers) - 1
          /\ \E i \in 1..Len(timers) :
               /\ timers[i] = Timer("replay", evt'.arg, timers[i].delay, evt'.aux)
               /\ timers' = Remove(timers, i)
  /\ \A i \in 1..Len(upSent') :
       upSent'[i].type = "sendMessage"
         => \/ evt'.kind = "connected" /\ upSent'[i].text = Greeting
            \/ evt'.kind = "timer.replay" /\ upSent'[i].text = evt'.arg

C5_InstalledToolsResolvable ==
  (Live /\ openaiWs = "open")
    => upTools \subseteq (IF rev = "bridge" THEN HandledTools ELSE LocalTools)

\* C6: a hand-off installs the new instructions and the new tools in one
\* session.update message: every session.update carries both, a step writes
\* at most one, and a hand-off's update is the first thing the step writes,
\* carrying the target persona's instructions and tools.
C6_AtomicUpdate ==
  /\ \A i \in 1..Len(upSent) :
       upSent[i].type = "session.update"
         => {"instructions", "tools"} \subseteq upSent[i].keys
  /\ Count(upSent, "session.update") <= 1
  /\ (evt.kind = "handoff" /\ evt.aux \in {"items", "router"} /\ openaiWs = "open")
       => /\ upSent # <<>>
          /\ upSent[1] = SessionUpdate(Instructions(evt.aux), HandoffTools(evt.aux))
          /\ upTools = HandoffTools(evt.aux)
  /\ (evt.kind = "transfer" /\ upSent # <<>>)
       => /\ upSent = <<SessionUpdate(Instructions(evt.aux), AgentTools(rev, evt.aux))>>
          /\ upTools = AgentTools(rev, evt.aux)

C6_Witness ==
  /\ evt = Evt("handoff", "when is pickup in Lakewood", "items")
  /\ Len(upSent) = 3
  /\ upSent[1].type = "session.update"
  /\ upSent[2] = UserItem("when is pickup in Lakewood")

\* C7: in the raw bridge, when either leg closes or errors, or the telephony
\* side sends 'stop', the handler closes the counterpart socket.
C7_CounterpartClosed ==
  (rev = "bridge" /\ conn = "accepted")
    => /\ evt.kind \in {"stop", "twilio.close", "twilio.error"}
            => openaiWs \in {"closing", "closed"}
       /\ evt.kind \in {"openai.close", "openai.error"}
            => twilioWs \in {"closing", "closed"}

\* C8: a connection whose request path is not /twilio-stream is closed at
\* once: no upstream socket or session is created, nothing is written
\* upstream, and no handler of the connection ever runs (a prompt refresh is
\* a request to the HTTP server, not an event of the connection).
C8_WrongPathRejected ==
  reqPath \notin {"", "/twilio-stream"}
    => /\ conn = "rejected"
       /\ twilioWs \in {"closing", "closed"}
       /\ openaiWs = "none"
       /\ upSent = <<>> /\ twSent = <<>> /\ upTools = {}
       /\ greeted = 0 /\ ~startSeen
       /\ pending = <<>> /\ timers = <<>>
       /\ evt.kind \in {"connection", "twilio.close", "refresh"}

C8_Witness ==
  /\ reqPath = "/unexpected"
  /\ conn = "rejected"
  /\ twilioWs = "closing"
  /\ openaiWs = "none"

\* C9: a failed backing lookup is caught: the step in which the lookup fails
\* lets no exception escape and leaves both sockets as they were.
C9_Step ==
  /\ (evt'.kind = "lookup.return" /\ evt'.aux # "ok")
       => (unhandled' = unhandled /\ twilioWs' = twilioWs /\ openaiWs' = openaiWs)
  /\ (evt'.kind = "pickup" /\ evt'.aux \in {"http500", "network"})
       => (~toolResult'.threw /\ unhandled' = unhandled
           /\ twilioWs' = twilioWs /\ openaiWs' = openaiWs)

C9_LookupFailureContained == [][C9_Step]_vars

C12_ErrorEndsCall ==
  (evt.kind = "error.event" /\ ~IgnoredError(evt.arg))
    => (twilioWs \in {"closing", "closed"} /\ openaiWs \in {"closing", "closed"})

\* C13: an upstream error event of the response-already-active race is
\* swallowed: the step closes neither leg, changes neither the active persona
\* nor the speaking flag, writes nothing and raises nothing.
C13_Step ==
  (evt'.kind = "error.event" /\ IgnoredError(evt'.arg))
    => /\ twilioWs' = twilioWs /\ openaiWs' = openaiWs
       /\ currentAgent' = currentAgent
       /\ isAssistantSpeaking' = isAssistantSpeaking
       /\ upSent' = <<>> /\ twSent' = <<>>
       /\ unhandled' = unhandled

C13_BenignErrorSwallowed == [][C13_Step]_vars

C13_Witness ==
  /\ rev = "agents"
  /\ evt = Evt("error.event", "conversation_already_has_active_response", "ignored")
  /\ twilioWs = "open" /\ openaiWs = "open"
  /\ currentAgent = "pickup"

\* C14: when the upstream connection fails before it became ready (socket
\* error before 'open', or connect rejected), the step closes the telephony
\* leg and sends nothing; no greeting has been or will be sent, and an
\* upstream connection that has ended is never opened again for the call.
C14_Step ==
  /\ (evt'.kind \in {"openai.error", "connect.failed"} /\ openaiWs = "connecting")
       => /\ twilioWs' \in {"closing", "closed"}
          /\ openaiWs' \in {"closing", "closed"}
          /\ greeted' = 0
          /\ upSent' = <<>>
  /\ openaiWs \in {"closing", "closed"}
       => (openaiWs' \in {"closing", "closed"} /\ greeted' = greeted)

C14_ConnectFailureEndsCall == [][C14_Step]_vars

C14_Witness ==
  /\ evt.kind \in {"openai.error", "connect.failed"}
  /\ greeted = 0
  /\ twilioWs = "closing"
  /\ openaiWs \in {"closing", "closed"}

\* C15: tool arguments are validated before any lookup runs: a tool call
\* whose arguments are malformed starts no backing request, raises nothing,
\* and is answered with one error result.
C15_Step ==
  (evt'.kind = "tool.call" /\ evt'.aux = "malformed")
    => /\ pending' = pending
       /\ unhandled' = unhandled
       /\ Count(upSent', "response.function_call_output") = 1

C15_ArgumentsValidated == [][C15_Step]_vars

\* C16 (as stated): while the speaking flag is false, every telephony media
\* frame causes exactly one input_audio_buffer.append with the identical
\* payload to be sent upstream when the frame is handled.
C16_EveryFrameForwarded ==
  (evt.kind = "media" /\ ~isAssistantSpeaking)
    => /\ Len(upSent) = 1
       /\ upSent[1].type = "input_audio_buffer.append"
       /\ upSent[1].text = evt.arg

\* C16 (amended): while the speaking flag is false and the upstream socket is
\* open, a media frame causes exactly one append with the identical payload
\* in the step that handles it; while the upstream socket is not open the
\* frame is neither sent nor kept for later.
C16_OpenFrameForwarded ==
  /\ (evt.kind = "media" /\ ~isAssistantSpeaking /\ openaiWs = "open")
       => /\ Len(upSent) = 1
          /\ upSent[1].type = "input_audio_buffer.append"
          /\ upSent[1].text = evt.arg
  /\ (evt.kind = "media" /\ openaiWs # "open") => upSent = <<>>
  /\ Count(upSent, "input_audio_buffer.append") <= 1
  /\ Count(upSent, "input_audio_buffer.append") = 1 => evt.kind = "media"

C16_Witness ==
  /\ evt = Evt("media", "m2", "")
  /\ ~isAssistantSpeaking /\ openaiWs = "open"
  /\ Len(upSent) = 1 /\ upSent[1].text = "m2"

\* C17: the speaking flag becomes true on an audio-output fragment event and
\* false on a response-completion event, and no other step changes it.
C17_Step ==
  /\ isAssistantSpeaking' # isAssistantSpeaking
       => \/ evt'.kind = "audio.delta" /\ isAssistantSpeaking'
          \/ evt'.kind = "response.done" /\ ~isAssistantSpeaking'
  /\ evt'.kind = "audio.delta" => isAssistantSpeaking'
  /\ evt'.kind = "response.done" => ~isAssistantSpeaking'

C17_FlagTransitions == [][C17_Step]_vars

C17_Witness ==
  /\ evt.kind = "handoff" /\ evt.aux = "items"
  /\ currentAgent = "items"
  /\ isAssistantSpeaking

\* C18: every session configuration written upstream carries non-empty
\* instruction text, whatever the persona store answered at startup.
C18_InstructionsNonEmpty ==
  \A i \in 1..Len(upSent) :
    upSent[i].type = "session.update" => upSent[i].instr # ""

\* C19: once a session has installed a persona's instructions upstream, a
\* later prompt refresh does not change that persona for the session: a
\* hand-off that installs the persona which is already the active one on an
\* open connection carries the instruction text that is installed.
C19_Step ==
  (/\ evt'.kind \in {"handoff", "transfer"}
   /\ evt'.aux = currentAgent
   /\ openaiWs = "open"
   /\ Count(upSent', "session.update") = 1)
    => /\ upInstr' = upInstr
       /\ upSent'[1].instr = upInstr

C19_RefreshLeavesBoundPersona == [][C19_Step]_vars

\* C20: with two concurrent calls, an event of one call leaves the other
\* call's active persona and speaking flag unchanged and writes nothing on
\* the other call's connections.
C20_Step ==
  \A s \in Sessions :
    evt'.aux # s
      => /\ currentAgent'[s] = currentAgent[s]
         /\ isAssistantSpeaking'[s] = isAssistantSpeaking[s]
         /\ upSent'[s] = <<>>
         /\ twSent'[s] = <<>>

C20_SessionsIsolated == [][C20_Step]_vars

C20_Witness ==
  /\ evt = Evt("handoff", "items", "A")
  /\ currentAgent["A"] = "items" /\ currentAgent["B"] = "router"
  /\ openaiWs["B"] = "open"
  /\ isAssistantSpeaking["B"] /\ ~isAssistantSpeaking["A"]
  /\ upSent["A"] # <<>> /\ upSent["B"] = <<>>

\* C21: a hand-off to the router persona clears the carried context: the step
\* that switches to router writes no user item holding the caller's question
\* and no greeting trigger, and a replay that runs while router is the active
\* persona carries only the fixed returning-caller utterance.
C21_RouterHandoffClearsContext ==
  /\ (evt.kind \in {"handoff", "transfer"} /\ evt.aux = "router")
       => \A i \in 1..Len(upSent) :
            upSent[i].type \in {"conversation.item.create", "sendMessage"}
              => upSent[i].text \notin (Questions \ {""}) \cup {Greeting}
  /\ (evt.kind = "timer.replay" /\ currentAgent = "router")
       => \A i \in 1..Len(upSent) : upSent[i].text = RouterReplayText

\* C22: get_pickup_times yields one of three outcomes by the lookup result:
\* zero rows give the not-found answer with no date, time window or address;
\* a first row flagged to-be-determined gives the pending answer with no time
\* window; any other first row gives the resolved answer with date, time
\* window and address all non-empty.
C22_PickupOutcomes ==
  (evt.kind = "pickup" /\ evt.arg.fetch.kind = "ok")
    => LET rows == evt.arg.fetch.rows
           said == toolResult.spoken_text
       IN /\ rows = <<>>
               => /\ said.key = "pickup_not_found"
                  /\ said.date = "" /\ said.time_window = "" /\ said.address = ""
          /\ (rows # <<>> /\ rows[1].is_tbd)
               => (said.key = "pickup_tbd" /\ said.time_window = "")
          /\ (rows # <<>> /\ ~rows[1].is_tbd)
               => /\ said.key = "pickup_success"
                  /\ said.date # "" /\ said.time_window # "" /\ said.address # ""

\* The location the claim expects the query to use for each sample input.
C23_Expected ==
  ("Lakewood" :> "Lakewood") @@ ("Brooklyn" :> "Brooklyn") @@ (" Flatbush " :> "Brooklyn")
  @@ ("Boro Park" :> "Brooklyn") @@ ("Deal" :> "Deal")

\* C23: the location of the schedule query is the synonym table's canonical
\* value when the lower-cased, trimmed input matches a synonym, else the raw
\* input unchanged, and the request to the schedule service carries it.
C23_QueryCarriesLocation ==
  evt.kind = "pickup"
    => LET raw == IF evt.arg.city # "" THEN evt.arg.city ELSE evt.arg.region IN
       raw # ""
         => apiUrl = IF rev = "third"
                       THEN "region.ilike.%" \o C23_Expected[raw] \o "%,city.ilike.%"
                            \o C23_Expected[raw] \o "%"
                       ELSE "pickup-times?region=" \o C23_Expected[raw]

\* C24: with more than one matching row, the options text of get_item_info
\* names every row: 'A and B' for two rows, 'A, B, and C' for three.
C24_OptionsEnumerated ==
  (evt.kind = "item" /\ \A i \in 1..Len(evt.arg.rows) : evt.arg.rows[i] # "")
    => LET rows == evt.arg.rows
           options == toolResult.spoken_text.options
       IN /\ Len(rows) = 2 => options = rows[1] \o " and " \o rows[2]
          /\ Len(rows) = 3
               => options = rows[1] \o ", " \o rows[2] \o ", and " \o rows[3]

\* C25: POST /refresh-prompts reloads the prompt cache only when the
\* Authorization header is 'Bearer ' followed by the configured secret; with
\* a missing or different token, or with no secret configured, the answer is
\* 401 and the cache is unchanged; only a reload's return changes the cache.
C25_Step ==
  /\ (evt'.kind = "http" /\ evt'.arg.method = "POST" /\ evt'.arg.url = "/refresh-prompts")
       => LET match == /\ PROMPT_REFRESH_SECRET # ""
                       /\ evt'.arg.auth = "Bearer " \o PROMPT_REFRESH_SECRET
          IN /\ match => (evt'.aux = "reloading" /\ reloads' = reloads + 1)
             /\ ~match => (evt'.aux = "401" /\ reloads' = reloads /\ PROMPTS' = PROMPTS)
  /\ reloads' > reloads => evt'.kind = "http"
  /\ PROMPTS' # PROMPTS => (evt'.kind = "reload.return" /\ reloads > 0)

C25_RefreshNeedsBearerSecret == [][C25_Step]_vars

C25_Witness ==
  /\ evt = Evt("http", Request("POST", "/refresh-prompts", "Bearer wrong"), "401")
  /\ PROMPT_REFRESH_SECRET = ConfiguredSecret
  /\ PROMPTS["router"] = "db2:router"
  /\ reloads = 0

\* C30: a handler that reads the prompt cache while refreshes are in progress
\* sees all entries as they were before a refresh or all as they are after
\* it: the router and the items text are never of different generations, in
\* the cache or in what a session installs from it.
C30_SnapshotRead ==
  /\ (PROMPTS["router"] = "db2:router") <=> (PROMPTS["items"] = "db2:items")
  /\ (evt.kind = "open" /\ upSent # <<>>)
       => ((upSent[1].instr = "db2:router") <=> (PROMPTS["items"] = "db2:items"))
  /\ (evt.kind = "handoff" /\ evt.aux = "items" /\ upSent # <<>>)
       => ((upSent[1].instr = "db2:items") <=> (PROMPTS["router"] = "db2:router"))

C30_Witness ==
  /\ evt.kind = "handoff" /\ evt.aux = "items"
  /\ reloads > 0
  /\ upInstr = "db2:items"
  /\ upSent # <<>> /\ upSent[1].instr = "db2:items"

\* C26: a telephony frame that is not valid JSON is ignored: the step writes
\* nothing upstream or to the caller, leaves the speaking flag, the active
\* persona and both sockets as they were, and lets no exception escape.
C26_Step ==
  evt'.kind = "twilio.invalid"
    => /\ upSent' = <<>> /\ twSent' = <<>>
       /\ isAssistantSpeaking' = isAssistantSpeaking
       /\ currentAgent' = currentAgent
       /\ twilioWs' = twilioWs /\ openaiWs' = openaiWs
       /\ unhandled' = unhandled
       /\ pending' = pending

C26_InvalidFrameIgnored == [][C26_Step]_vars

C26_Witness ==
  /\ evt.kind = "twilio.invalid"
  /\ twilioWs = "open" /\ openaiWs = "open"
  /\ isAssistantSpeaking /\ currentAgent = "items"
  /\ ~unhandled

\* C27: audio fragments reach the telephony leg in the order the model sent
\* them: each fragment is written in the step that receives it, also while
\* an earlier event's handler is suspended in an awaited lookup, and no other
\* step writes audio to the caller.
C27_Step ==
  /\ (evt'.kind = "audio.delta" /\ evt'.arg # "" /\ twilioWs = "open")
       => twSent' = <<evt'.arg>>
  /\ twSent' # <<>> => (evt'.kind = "audio.delta" /\ twSent' = <<evt'.arg>>)

C27_AudioInOrder == [][C27_Step]_vars

C27_Witness ==
  /\ evt = Evt("audio.delta", "d1", "")
  /\ pending # <<>>
  /\ twSent = <<"d1">>

\* C28: a hand-off with carried context writes the configuration update
\* only; the user item holding the context and the response request follow
\* after the fixed delay, from the replay timer.  A hand-off without context
\* writes only the configuration update.
C28_HandoffThenDelayedReplay ==
  /\ evt.kind \in {"handoff", "transfer"}
       => /\ Len(upSent) <= 1
          /\ \A i \in 1..Len(upSent) : upSent[i].type = "session.update"
  /\ \A i \in 1..Len(upSent) :
       (upSent[i].type \in {"conversation.item.create", "sendMessage"}
        /\ upSent[i].text \in Questions \ {""})
         => evt.kind = "timer.replay"

\* C29: on upstream open the session configuration with the router
\* instructions and tools is written first, then the greeting item, then the
\* response request; a greeting or a response request is never written
\* unless the default persona has been pushed before it.
C29_ConfigBeforeGreeting ==
  /\ evt.kind = "open"
       => /\ Len(upSent) = 3
          /\ upSent[1].type = "session.update"
          /\ upSent[1].instr \in {"db:router", "db2:router", "fallback:router"}
          /\ upSent[1].tools = {"determine_route"}
          /\ upSent[2] = UserItem(Greeting)
          /\ upSent[3] = ResponseCreate
  /\ \A i \in 1..Len(upSent) :
       (upSent[i].text = Greeting \/ upSent[i].type = "response.create")
         => /\ upTools # {}
            /\ rev = "bridge" => \E j \in 1..(i - 1) : upSent[j].type = "session.update"

C29_Witness ==
  /\ evt.kind = "open"
  /\ Len(upSent) = 3
  /\ upSent[1].type = "session.update" /\ upSent[1].instr = "fallback:router"
  /\ upSent[2].text = Greeting
  /\ greeted = 1

\* C31: every tool invocation eventually produces a result, even if the
\* backing lookup never responds: once a tool call waits for its lookup, the
\* wait ends.
C31_ToolWaitEnds == (pending # <<>>) ~> (pending = <<>>)

\* C32: closing the counterpart leg is idempotent.  When the upstream 'close'
\* or 'error' handler runs while the telephony socket is already closing or
\* closed (an upstream 'error' followed by the upstream 'close' included), or
\* a stop frame is handled while the upstream socket is already closing or
\* closed, the counterpart stays exactly as it was and nothing is raised.
C32_Step ==
  /\ (/\ evt'.kind \in {"openai.close", "openai.error"}
      /\ twilioWs \in {"closing", "closed"})
     => (twilioWs' = twilioWs /\ unhandled' = unhandled)
  /\ (evt'.kind = "stop" /\ openaiWs \in {"closing", "closed"})
     => (openaiWs' = openaiWs /\ unhandled' = unhandled)

C32_CounterpartCloseIdempotent == [][C32_Step]_vars

\* The upstream 'close' has run after the upstream 'error' already closed the
\* telephony socket.
C32_Witness ==
  /\ rev = "bridge"
  /\ evt.kind = "openai.close"
  /\ openaiWs = "closed"
  /\ twilioWs \in {"closing", "closed"}
  /\ ~unhandled

\* C33: for each tool call the backing lookup is executed at most once,
\* however many argument-fragment events arrive for it.  When an arguments
\* event that carried a fragment has started a lookup for a tool, the next
\* arguments event of the same call (the same tool, arriving directly after
\* it) starts no further lookup.
C33_Step ==
  (/\ evt.kind = "tool.call"
   /\ evt.arg \in HandledTools
   /\ evt.aux = "malformed"
   /\ pending # <<>>
   /\ pending[Len(pending)] = evt.arg
   /\ evt'.kind = "tool.call"
   /\ evt'.arg = evt.arg)
  => Len(pending') = Len(pending)

C33_OneLookupPerToolCall == [][C33_Step]_vars

\* C34: after the telephony leg has closed, no delayed action sends a message
\* on the session.  A hand-off replay or return-to-main-menu timer that fires
\* once the telephony socket is closed writes nothing upstream and raises
\* nothing.
C34_Step ==
  (evt'.kind = "timer.replay" /\ twilioWs = "closed")
  => (upSent' = <<>> /\ unhandled' = unhandled)

C34_NoDelayedSendAfterHangup == [][C34_Step]_vars

\* C35: currentAgent is 'router' or 'items' and names the persona whose
\* instructions and tools were carried by the most recent session.update sent
\* upstream (router before any hand-off); a hand-off request with any other
\* intent changes neither currentAgent nor the upstream configuration and
\* sends nothing.
C35_Step ==
  /\ currentAgent' \in {"router", "items"}
  /\ upInstr' # "" => upTools' = HandoffTools(currentAgent')
  /\ (evt'.kind = "handoff" /\ evt'.aux \notin {"items", "router"})
     => /\ currentAgent' = currentAgent
        /\ upTools' = upTools /\ upInstr' = upInstr
        /\ upSent' = <<>>

C35_AgentNamesActiveConfig == [][C35_Step]_vars

\* C36: tool outputs are sent upstream in the order their tool calls were
\* received, whatever the latencies of the lookups: a lookup whose answer is
\* handled, and whose output is sent, is the oldest one still in flight.
C36_Step ==
  (evt'.kind = "lookup.return" /\ upSent' # <<>>)
  => (pending # <<>> /\ evt'.arg = Head(pending) /\ pending' = Tail(pending))

C36_OutputsInCallOrder == [][C36_Step]_vars

\* C37: whenever the speaking flag is true, at least one audio frame has been
\* sent to telephony since the flag was last false: the step that raises the
\* flag writes a media frame to the telephony socket.
C37_Step ==
  (~isAssistantSpeaking /\ isAssistantSpeaking') => twSent' # <<>>

C37_SpeakingMeansAudioSent == [][C37_Step]_vars

\* C38: a media frame handled before the upstream connection has opened is
\* lost: nothing is written for it, the failed send does not escape the
\* telephony handler, and neither socket is closed because of it; and it is
\* never forwarded later: every audio append written upstream carries the
\* payload of the media frame being handled in that very step.
C38_Step ==
  /\ (evt'.kind = "media" /\ openaiWs = "connecting")
     => /\ upSent' = <<>>
        /\ unhandled' = unhandled
        /\ twilioWs' = twilioWs /\ openaiWs' = openaiWs
  /\ \A k \in 1..Len(upSent') :
       upSent'[k].type = "input_audio_buffer.append"
       => (evt'.kind = "media" /\ upSent'[k].text = evt'.arg /\ openaiWs = "open")

C38_EarlyFrameLost == [][C38_Step]_vars

\* A media frame has been handled while the upstream socket was connecting.
C38_Witness ==
  /\ rev = "bridge"
  /\ evt.kind = "media"
  /\ openaiWs = "connecting"
  /\ twilioWs = "open"
  /\ upSent = <<>>
  /\ ~unhandled

\* C39: an upstream message that cannot be parsed as JSON is ignored, like a
\* malformed telephony frame: the handler completes without an unhandled
\* failure, and the speaking flag, the persona and both connections are
\* unchanged.
C39_Step ==
  evt'.kind = "openai.invalid"
  => /\ unhandled' = unhandled
     /\ isAssistantSpeaking' = isAssistantSpeaking
     /\ currentAgent' = currentAgent
     /\ twilioWs' = twilioWs /\ openaiWs' = openaiWs
     /\ upSent' = <<>> /\ twSent' = <<>>

C39_InvalidUpstreamIgnored == [][C39_Step]_vars

\* C40: when the call's source is ivr_rebbi, transfer_to_main_menu never
\* switches the agent to the router and arms no replay: a call that has left
\* the router never comes back to it, the tool's run changes neither the agent
\* nor the upstream configuration and writes nothing, and all it leaves is the
\* timer that closes the telephony socket after its delay.  When that timer
\* runs, the telephony socket is closed and nothing is raised, also when the
\* socket was closed already.
C40_Step ==
  /\ (source = "ivr_rebbi" /\ currentAgent # "router") => currentAgent' # "router"
  /\ source = "ivr_rebbi"
     => \A k \in 1..Len(timers') :
          ~(timers'[k].kind = "replay" /\ timers'[k].persona = "router")
  /\ (source = "ivr_rebbi" /\ evt'.kind = "transfer" /\ evt'.aux \in {"ivr", "router"})
     => /\ evt'.aux = "ivr"
        /\ currentAgent' = currentAgent
        /\ upTools' = upTools /\ upInstr' = upInstr
        /\ upSent' = <<>> /\ twSent' = <<>>
        /\ twilioWs' = twilioWs /\ openaiWs' = openaiWs
        /\ timers' = Append(timers, Timer("close", "", IvrCloseDelay, "ivr"))
  /\ evt'.kind = "timer.close"
     => /\ source = "ivr_rebbi"
        /\ twilioWs' \in {"closing", "closed"}
        /\ twilioWs \in {"closing", "closed"} => twilioWs' = twilioWs
        /\ unhandled' = unhandled
        /\ upSent' = <<>>
        /\ currentAgent' = currentAgent /\ openaiWs' = openaiWs

C40_IvrReturnOnlyCloses == [][C40_Step]_vars

\* On a call from the IVR menu the close timer of transfer_to_main_menu has
\* run on a telephony socket that the caller had closed before.
C40_Witness ==
  /\ rev = "agents" /\ source = "ivr_rebbi"
  /\ evt.kind = "timer.close"
  /\ twilioWs = "closed"
  /\ currentAgent # "router"
  /\ ~unhandled

====
